---------------------------- MODULE Spec2Model ----------------------------
(***************************************************************************)
(* Model of the quadrilateral solver of CAD-Zeichner (src/src/geometry).   *)
(*                                                                         *)
(* Number representation.  Side lengths are i64 micrometers in the source  *)
(* and plain integers here.  f64 values are modelled in fixed point:       *)
(*   - a coordinate is an integer number of grid units, FP units per um;   *)
(*   - an angle in degrees is an integer number of millidegrees (mdeg);    *)
(*   - cos/sin are table driven (half-degree table, five decimals, linear  *)
(*     interpolation in between);                                          *)
(*   - NaN is the reserved value NaN.                                      *)
(* All products stay below 2^31 for sides up to 100 um; MulDiv computes    *)
(* a*b/c without forming the product.                                      *)
(*                                                                         *)
(* Accuracy.  Against an IEEE-double evaluation of the same formulas on    *)
(* every input of Spec and SpecAngles the model returns the same Result    *)
(* and selects the same constructor; vertices agree within 0.13 um and     *)
(* derived angles within 0.1 degree (0.55 degree where two circles touch). *)
(* A derived length whose exact value ends in .5 um may round the other    *)
(* way, and the angle at two vertices that coincide exactly is 0 here but  *)
(* rounding noise in the source.                                           *)
(***************************************************************************)
EXTENDS Integers, Sequences, FiniteSets, TLC

VARIABLES
    quad,       \* the Quadrilateral instance (types.rs)
    field,      \* how many of the eight input fields the caller has visited
    old,        \* the instance as it was when calculate() was entered
    result,     \* what calculate() returned (NoResult before the call)
    strategy,   \* the construct_* function the dispatcher selected, or "none"
    fin,        \* arguments of the pure function under check
    fout,       \* its result
    app,        \* the CadApp around the instance (ui.rs), without its quad
    tasks,      \* the tasks check_for_updates spawned on the tokio runtime
    main        \* the main thread: "running", or "panicked" in update()

vars == <<quad, field, old, result, strategy, fin, fout, app, tasks, main>>

---------------------------------------------------------------------------
(* Fixed-point arithmetic                                                  *)

FP == 50            \* grid units per micrometer (resolution of an f64 coordinate)
NaN == -999999999   \* f64::NAN; also what 0.0/0.0 yields

Abs(n) == IF n < 0 THEN -n ELSE n
Sgn(n) == IF n < 0 THEN -1 ELSE IF n > 0 THEN 1 ELSE 0
Max(a, b) == IF a >= b THEN a ELSE b

\* n/d rounded to nearest, halves away from zero (f64::round), d > 0
RoundDiv(n, d) == Sgn(n) * ((2 * Abs(n) + d) \div (2 * d))

\* n/d truncated toward zero (an "as i64" cast of a finite f64), d > 0
TruncDiv(n, d) == Sgn(n) * (Abs(n) \div d)

\* <<q, r>> with a*b = q*c + r and 0 <= r < c, for a, b >= 0, c > 0 and
\* 2*c + a < 2^31: the product itself is never formed.
RECURSIVE MulDivQR(_, _, _)
MulDivQR(a, b, c) ==
    IF b = 0 THEN <<0, 0>>
    ELSE LET h == MulDivQR(a, b \div 2, c)
             t == 2 * h[2] + (b % 2) * a
         IN  <<2 * h[1] + t \div c, t % c>>

\* a*b/c rounded to nearest, operands of either sign, c > 0
MulDiv(a, b, c) ==
    LET qr == MulDivQR(Abs(a), Abs(b), c)
    IN  Sgn(a) * Sgn(b) * (qr[1] + (IF 2 * qr[2] >= c THEN 1 ELSE 0))

\* floor(sqrt(n)) for 0 <= n < 2^31, by bisection on lo..hi
RECURSIVE SqrtBetween(_, _, _)
SqrtBetween(n, lo, hi) ==
    IF lo >= hi THEN lo
    ELSE LET mid == (lo + hi + 1) \div 2
         IN  IF mid * mid <= n THEN SqrtBetween(n, mid, hi)
                               ELSE SqrtBetween(n, lo, mid - 1)

ISqrt(n) == SqrtBetween(n, 0, 46340)

\* sqrt(n) rounded to nearest
SqrtRound(n) == LET r == ISqrt(n) IN IF n - r * r > r THEN r + 1 ELSE r

---------------------------------------------------------------------------
(* f64::cos and f64::sin of an angle in degrees (after "* PI / 180.0")     *)

\* cos at 0.0, 0.5, ... 90.0 degrees, times 10^5
CosTab == <<
       100000, 99996, 99985, 99966, 99939, 99905, 99863, 99813, 99756, 99692,
       99619, 99540, 99452, 99357, 99255, 99144, 99027, 98902, 98769, 98629,
       98481, 98325, 98163, 97992, 97815, 97630, 97437, 97237, 97030, 96815,
       96593, 96363, 96126, 95882, 95630, 95372, 95106, 94832, 94552, 94264,
       93969, 93667, 93358, 93042, 92718, 92388, 92050, 91706, 91355, 90996,
       90631, 90259, 89879, 89493, 89101, 88701, 88295, 87882, 87462, 87036,
       86603, 86163, 85717, 85264, 84805, 84339, 83867, 83389, 82904, 82413,
       81915, 81412, 80902, 80386, 79864, 79335, 78801, 78261, 77715, 77162,
       76604, 76041, 75471, 74896, 74314, 73728, 73135, 72537, 71934, 71325,
       70711, 70091, 69466, 68835, 68200, 67559, 66913, 66262, 65606, 64945,
       64279, 63608, 62932, 62251, 61566, 60876, 60182, 59482, 58779, 58070,
       57358, 56641, 55919, 55194, 54464, 53730, 52992, 52250, 51504, 50754,
       50000, 49242, 48481, 47716, 46947, 46175, 45399, 44620, 43837, 43051,
       42262, 41469, 40674, 39875, 39073, 38268, 37461, 36650, 35837, 35021,
       34202, 33381, 32557, 31730, 30902, 30071, 29237, 28402, 27564, 26724,
       25882, 25038, 24192, 23345, 22495, 21644, 20791, 19937, 19081, 18224,
       17365, 16505, 15643, 14781, 13917, 13053, 12187, 11320, 10453, 9585,
       8716, 7846, 6976, 6105, 5234, 4362, 3490, 2618, 1745, 873,
       0 >>

\* tab at position i (from 0), moved f/500 of the way to position i + 1
Interpolate(tab, i, f) ==
    IF f = 0 THEN tab[i + 1]
    ELSE tab[i + 1] - RoundDiv((tab[i + 1] - tab[i + 2]) * f, 500)

\* cos of a first-quadrant angle 0 <= a <= 90000 mdeg, times 10^5
CosQ1(a) == Interpolate(CosTab, a \div 500, a % 500)

\* cos of an angle 0 <= r <= 180000 mdeg, times 10^5
CosHalf(r) == IF r <= 90000 THEN CosQ1(r) ELSE -CosQ1(180000 - r)

\* cos of 0 <= m < 360000 mdeg
CosTurn(m) == CosHalf(IF m > 180000 THEN 360000 - m ELSE m)

\* cos of any angle in mdeg, times 10^5
CosE5(a) == CosTurn(a % 360000)

SinE5(a) == CosE5(a - 90000)

\* len * cos(a) and len * sin(a) as placed by the constructors: len in um,
\* the result a coordinate in grid units
MulCos(len, a) == RoundDiv(len * FP * CosE5(a), 100000)
MulSin(len, a) == RoundDiv(len * FP * SinE5(a), 100000)

---------------------------------------------------------------------------
(* f64::atan2, in degrees                                                  *)

\* atan(2^-i) for i = 0..10, in microdegrees
AtanTab == << 45000000, 26565051, 14036243, 7125016, 3576334, 1789911,
              895174, 447614, 223811, 111906, 55953 >>

Pow2(i) == CASE i = 0 -> 1 [] i = 1 -> 2 [] i = 2 -> 4 [] i = 3 -> 8
             [] i = 4 -> 16 [] i = 5 -> 32 [] i = 6 -> 64 [] i = 7 -> 128
             [] i = 8 -> 256 [] i = 9 -> 512 [] OTHER -> 1024

\* CORDIC vectoring: rotates (x, y), x > 0, toward the x axis in steps of
\* atan(2^-i) and sums the steps into z; the remainder y/x is added as a
\* small angle.  Result in microdegrees.
RECURSIVE Cordic(_, _, _, _)
Cordic(x, y, z, i) ==
    IF i > 10 THEN z + MulDiv(y, 57295780, x)
    ELSE IF y >= 0
         THEN Cordic(x + y \div Pow2(i), y - x \div Pow2(i), z + AtanTab[i + 1], i + 1)
         ELSE Cordic(x + (-y) \div Pow2(i), y + x \div Pow2(i), z - AtanTab[i + 1], i + 1)

\* atan(y/x) in microdegrees for 0 <= y <= x, x > 0: the operands are first
\* scaled up so that the integer shifts lose nothing
AtanUdeg(y, x) ==
    LET k == 134217728 \div x     \* 2^27 / x
        s == IF k >= 2 THEN k ELSE 1
    IN  IF x > 268435456          \* 2^28
        THEN Cordic(x \div 2, y \div 2, 0, 0)
        ELSE Cordic(x * s, y * s, 0, 0)

\* atan(y/x) in microdegrees for x, y > 0
AtanQ1(y, x) == IF y <= x THEN AtanUdeg(y, x) ELSE 90000000 - AtanUdeg(x, y)

\* the angle m of (|x|, y) seen from (x, y)
Supplement(x, m) == IF x > 0 THEN m ELSE 180000 - m

\* |atan2(y, x)| in millidegrees, for y >= 0 (the caller passes |cross|)
Atan2Mdeg(y, x) ==
    IF y = 0 THEN (IF x >= 0 THEN 0 ELSE 180000)
    ELSE IF x = 0 THEN 90000
    ELSE Supplement(x, RoundDiv(AtanQ1(y, Abs(x)), 1000))

---------------------------------------------------------------------------
(* Option<T>, Point, Result<(), String>                                    *)

None == << >>
Some(v) == << v >>
is_some(o) == o # None
is_none(o) == o = None
unwrap(o) == o[1]

Point(x, y) == [x |-> x, y |-> y]
NaNPoint == Point(NaN, NaN)
IsNaNPoint(p) == p.x = NaN \/ p.y = NaN

\* "side_um.unwrap() as f64": a length in um as a coordinate in grid units
AsF64(um) == um * FP

\* The error strings of the source, by the data they are formatted from
NoResult == [kind |-> "NoResult", a |-> 0, b |-> 0, name |-> ""]
Ok == [kind |-> "Ok", a |-> 0, b |-> 0, name |-> ""]
Err(kind, a, b, name) == [kind |-> kind, a |-> a, b |-> b, name |-> name]
InsufficientConstraints(sides_given, angles_given) ==
    Err("InsufficientConstraints", sides_given, angles_given, "")
AngleSumInvalid(sum) == Err("AngleSumInvalid", sum, sum - 360000, "")
InvalidDerivedAngle(sum, missing) == Err("InvalidDerivedAngle", sum, missing, "")
UnsupportedCombination == Err("UnsupportedCombination", 0, 0, "")
GeometricConflict == Err("GeometricConflict", 0, 0, "")
ClosureMismatch(name, calculated_um, expected_um) ==
    Err("ClosureMismatch", calculated_um, expected_um, name)

---------------------------------------------------------------------------
(* geometry/utils.rs                                                       *)

\* |p2 - p1| squared, in grid units squared
Dist2(p1, p2) == (p2.x - p1.x) * (p2.x - p1.x) + (p2.y - p1.y) * (p2.y - p1.y)

\* distance_um: sqrt(dx*dx + dy*dy).round() as i64, in um.  k is the nearest
\* integer to sqrt(n)/FP iff (2k-1)*FP <= sqrt(4n) < (2k+1)*FP.  A NaN
\* distance casts to 0.
distance_um(p1, p2) ==
    IF IsNaNPoint(p1) \/ IsNaNPoint(p2) THEN 0
    ELSE (ISqrt(4 * Dist2(p1, p2)) \div FP + 1) \div 2

\* "if angle_deg > 180.0 { 360.0 - angle_deg } else { angle_deg }"
FoldAngle(angle_deg) == IF angle_deg > 180000 THEN 360000 - angle_deg ELSE angle_deg

\* calculate_interior_angle: |atan2(cross, dot)| in degrees, folded at 180
calculate_interior_angle(prev, vertex, next) ==
    IF IsNaNPoint(prev) \/ IsNaNPoint(vertex) \/ IsNaNPoint(next) THEN NaN
    ELSE LET v1_x == prev.x - vertex.x
             v1_y == prev.y - vertex.y
             v2_x == next.x - vertex.x
             v2_y == next.y - vertex.y
             dot == v1_x * v2_x + v1_y * v2_y
             cross == v1_x * v2_y - v1_y * v2_x
         IN  FoldAngle(Atan2Mdeg(Abs(cross), dot))

\* A variant of the conflict test that only rejects circles that are too
\* far apart
CirclesConflict_apart_only(d2, r1, r2) ==
    \/ r1 + r2 < 0
    \/ d2 > (r1 + r2) * (r1 + r2)

\* The conflict test of find_circle_intersection on the squared distance:
\* d > r1 + r2 or d < |r1 - r2|, radii in grid units
CirclesConflict(d2, r1, r2) ==
    \/ r1 + r2 < 0
    \/ d2 > (r1 + r2) * (r1 + r2)
    \/ d2 < (r1 - r2) * (r1 - r2)

\* find_circle_intersection: [err, p].  With k = r1^2 - r2^2 + d^2 the
\* source's a = k/(2d) and h = sqrt(r1^2 - a^2); a*dx/d = k*dx/(2 d^2) and
\* h*dy/d = sqrt(h^2 * dy^2 / d^2) are formed without rounding d.  With
\* coincident centers (d = 0) a is 0/0 and the point is NaN.  Inside the
\* conflict test h^2 is negative only by rounding; it is taken as 0.
find_circle_intersection(center1, radius_um, center2, radius2_um) ==
    LET dx == center2.x - center1.x
        dy == center2.y - center1.y
        d2 == dx * dx + dy * dy
        r1 == radius_um
        r2 == radius2_um
    IN  IF CirclesConflict(d2, r1, r2) THEN [err |-> GeometricConflict, p |-> NaNPoint]
        ELSE IF d2 = 0 THEN [err |-> Ok, p |-> NaNPoint]
        ELSE LET k == r1 * r1 - r2 * r2 + d2
                 px == center1.x + MulDiv(k, dx, 2 * d2)
                 py == center1.y + MulDiv(k, dy, 2 * d2)
                 h2 == Max(0, r1 * r1 - MulDiv(k, k, 4 * d2))
                 hdy == Sgn(dy) * SqrtRound(MulDiv(h2, dy * dy, d2))
                 hdx == Sgn(dx) * SqrtRound(MulDiv(h2, dx * dx, d2))
                 p1 == Point(px + hdy, py - hdx)
                 p2 == Point(px - hdy, py + hdx)
             IN  [err |-> Ok, p |-> IF p1.y > p2.y THEN p1 ELSE p2]

---------------------------------------------------------------------------
(* geometry/validation.rs                                                  *)

\* A variant of tolerance_um that rounds 0.1% of the expected length to the
\* nearest micrometer instead of truncating it
tolerance_um_rounded(expected_um) == Max(1, RoundDiv(expected_um, 1000))

\* tolerance_um = 1.max((expected_um as f64 * 0.001) as i64)
tolerance_um(expected_um) == Max(1, TruncDiv(expected_um, 1000))

validate_length_um(name, calculated_um, expected_um) ==
    LET diff_um == Abs(calculated_um - expected_um)
    IN  IF diff_um > tolerance_um(expected_um)
        THEN ClosureMismatch(name, calculated_um, expected_um)
        ELSE Ok

\* The fields of a Quadrilateral; vertices is indexed 0..3 (A, B, C, D)
Verts(v0, v1, v2, v3) == (0 :> v0) @@ (1 :> v1) @@ (2 :> v2) @@ (3 :> v3)

\* Quadrilateral::new()
NewQuadrilateral ==
    [ vertices |-> Verts(Point(0, 0), Point(0, 0), Point(0, 0), Point(0, 0)),
      side_ab_um |-> None, side_bc_um |-> None,
      side_cd_um |-> None, side_da_um |-> None,
      angle_a |-> None, angle_b |-> None, angle_c |-> None, angle_d |-> None ]

\* get_side_length_um; side is 0..3 for AB, BC, CD, DA
get_side_length_um(q, side) ==
    IF side = 0 THEN distance_um(q.vertices[0], q.vertices[1])
    ELSE IF side = 1 THEN distance_um(q.vertices[1], q.vertices[2])
    ELSE IF side = 2 THEN distance_um(q.vertices[2], q.vertices[3])
    ELSE IF side = 3 THEN distance_um(q.vertices[3], q.vertices[0])
    ELSE 0

Count(opts) == Cardinality({i \in DOMAIN opts : is_some(opts[i])})
SidesOf(q) == << q.side_ab_um, q.side_bc_um, q.side_cd_um, q.side_da_um >>
AnglesOf(q) == << q.angle_a, q.angle_b, q.angle_c, q.angle_d >>

has_adjacent_angles(q) ==
    \/ is_some(q.angle_a) /\ is_some(q.angle_b)
    \/ is_some(q.angle_b) /\ is_some(q.angle_c)
    \/ is_some(q.angle_c) /\ is_some(q.angle_d)
    \/ is_some(q.angle_d) /\ is_some(q.angle_a)

\* the sum of the angles that are set
AngleSum(q) ==
    (IF is_some(q.angle_a) THEN unwrap(q.angle_a) ELSE 0)
  + (IF is_some(q.angle_b) THEN unwrap(q.angle_b) ELSE 0)
  + (IF is_some(q.angle_c) THEN unwrap(q.angle_c) ELSE 0)
  + (IF is_some(q.angle_d) THEN unwrap(q.angle_d) ELSE 0)

\* A variant of AssignMissing that does not store the fourth angle
AssignMissing_not_stored(q, missing) == q

\* where calculate_missing_angles stores the fourth angle
AssignMissing(q, missing) ==
    IF is_none(q.angle_a) THEN [q EXCEPT !.angle_a = Some(missing)]
    ELSE IF is_none(q.angle_b) THEN [q EXCEPT !.angle_b = Some(missing)]
    ELSE IF is_none(q.angle_c) THEN [q EXCEPT !.angle_c = Some(missing)]
    ELSE IF is_none(q.angle_d) THEN [q EXCEPT !.angle_d = Some(missing)]
    ELSE q

\* A variant of calculate_missing_angles that rejects a sum exactly 0.5
\* degrees away from 360 (">=" for ">")
calculate_missing_angles_strict_sum(q) ==
    LET angles_given == Count(AnglesOf(q))
        sum == AngleSum(q)
        missing == 360000 - sum
    IN  IF angles_given = 4
        THEN IF Abs(sum - 360000) >= 500
             THEN [q |-> q, res |-> AngleSumInvalid(sum)]
             ELSE [q |-> q, res |-> Ok]
        ELSE IF angles_given = 3
        THEN IF missing <= 0 \/ missing >= 360000
             THEN [q |-> q, res |-> InvalidDerivedAngle(sum, missing)]
             ELSE [q |-> AssignMissing(q, missing), res |-> Ok]
        ELSE [q |-> q, res |-> Ok]

\* A variant of calculate_missing_angles that lets a derived angle of exactly
\* 0 degrees through ("<" for "<=")
calculate_missing_angles_zero_allowed(q) ==
    LET angles_given == Count(AnglesOf(q))
        sum == AngleSum(q)
        missing == 360000 - sum
    IN  IF angles_given = 4
        THEN IF Abs(sum - 360000) > 500
             THEN [q |-> q, res |-> AngleSumInvalid(sum)]
             ELSE [q |-> q, res |-> Ok]
        ELSE IF angles_given = 3
        THEN IF missing < 0 \/ missing >= 360000
             THEN [q |-> q, res |-> InvalidDerivedAngle(sum, missing)]
             ELSE [q |-> AssignMissing(q, missing), res |-> Ok]
        ELSE [q |-> q, res |-> Ok]

\* A variant of calculate_missing_angles that stores the fourth angle before
\* it tests it
calculate_missing_angles_store_first(q) ==
    LET angles_given == Count(AnglesOf(q))
        sum == AngleSum(q)
        missing == 360000 - sum
    IN  IF angles_given = 4
        THEN IF Abs(sum - 360000) > 500
             THEN [q |-> q, res |-> AngleSumInvalid(sum)]
             ELSE [q |-> q, res |-> Ok]
        ELSE IF angles_given = 3
        THEN IF missing <= 0 \/ missing >= 360000
             THEN [q |-> AssignMissing(q, missing), res |-> InvalidDerivedAngle(sum, missing)]
             ELSE [q |-> AssignMissing(q, missing), res |-> Ok]
        ELSE [q |-> q, res |-> Ok]

\* calculate_missing_angles: [q, res]
calculate_missing_angles(q) ==
    LET angles_given == Count(AnglesOf(q))
        sum == AngleSum(q)
        missing == 360000 - sum
    IN  IF angles_given = 4
        THEN IF Abs(sum - 360000) > 500
             THEN [q |-> q, res |-> AngleSumInvalid(sum)]
             ELSE [q |-> q, res |-> Ok]
        ELSE IF angles_given = 3
        THEN IF missing <= 0 \/ missing >= 360000
             THEN [q |-> q, res |-> InvalidDerivedAngle(sum, missing)]
             ELSE [q |-> AssignMissing(q, missing), res |-> Ok]
        ELSE [q |-> q, res |-> Ok]

\* A variant of calculate_angles_from_vertices that forgets vertex D
calculate_angles_without_d(q) ==
    LET v == q.vertices
    IN  [q EXCEPT
          !.angle_a = IF is_none(@) THEN Some(calculate_interior_angle(v[3], v[0], v[1])) ELSE @,
          !.angle_b = IF is_none(@) THEN Some(calculate_interior_angle(v[0], v[1], v[2])) ELSE @,
          !.angle_c = IF is_none(@) THEN Some(calculate_interior_angle(v[1], v[2], v[3])) ELSE @]

\* A variant of calculate_angles_from_vertices that recomputes every angle,
\* also the ones that are set
calculate_angles_overwriting(q) ==
    LET v == q.vertices
    IN  [q EXCEPT
          !.angle_a = Some(calculate_interior_angle(v[3], v[0], v[1])),
          !.angle_b = Some(calculate_interior_angle(v[0], v[1], v[2])),
          !.angle_c = Some(calculate_interior_angle(v[1], v[2], v[3])),
          !.angle_d = Some(calculate_interior_angle(v[2], v[3], v[0]))]

\* calculate_angles_from_vertices
calculate_angles_from_vertices(q) ==
    LET v == q.vertices
    IN  [q EXCEPT
          !.angle_a = IF is_none(@) THEN Some(calculate_interior_angle(v[3], v[0], v[1])) ELSE @,
          !.angle_b = IF is_none(@) THEN Some(calculate_interior_angle(v[0], v[1], v[2])) ELSE @,
          !.angle_c = IF is_none(@) THEN Some(calculate_interior_angle(v[1], v[2], v[3])) ELSE @,
          !.angle_d = IF is_none(@) THEN Some(calculate_interior_angle(v[2], v[3], v[0])) ELSE @]

---------------------------------------------------------------------------
(* geometry/construction.rs: every constructor returns [q, res], q being   *)
(* the instance as the function leaves it, also when it returns an error   *)

\* "validate_length_um(..)?; self.calculate_angles_from_vertices(); Ok(())"
ThenAngles(q, res) ==
    IF res.kind # "Ok" THEN [q |-> q, res |-> res]
    ELSE [q |-> calculate_angles_from_vertices(q), res |-> Ok]

\* "self.vertices[0] = ..; self.vertices[1] = ..; .." of a two-angle constructor
WithVertices(q, v0, v1, v2, v3) == [q EXCEPT !.vertices = Verts(v0, v1, v2, v3)]

\* the side fields by index, 0..3 for AB, BC, CD, DA
side_um(q, side) == SidesOf(q)[side + 1]
with_side_um(q, side, um) ==
    IF side = 0 THEN [q EXCEPT !.side_ab_um = Some(um)]
    ELSE IF side = 1 THEN [q EXCEPT !.side_bc_um = Some(um)]
    ELSE IF side = 2 THEN [q EXCEPT !.side_cd_um = Some(um)]
    ELSE [q EXCEPT !.side_da_um = Some(um)]

\* "let calculated_um = distance_um(&self.vertices[i], &self.vertices[j])"
\* for the closing side, i and j its endpoints
calculated_side_um(q, side) == distance_um(q.vertices[side], q.vertices[(side + 1) % 4])

\* The end of a constructor for four sides and two angles:
\* "self.validate_length_um(name, calculated_um, given)?;
\*  self.calculate_angles_from_vertices(); Ok(())"
ValidateSide(q, name, side) ==
    ThenAngles(q, validate_length_um(name, calculated_side_um(q, side),
                                     unwrap(side_um(q, side))))

\* The end of a constructor for three sides and two angles:
\* "if let Some(input_um) = self.side { self.validate_length_um(..)?; }
\*  else { self.side = Some(calculated_um); }
\*  self.calculate_angles_from_vertices(); Ok(())"
ValidateOrDeriveSide(q, name, side) ==
    ThenAngles(
        IF is_some(side_um(q, side)) THEN q
        ELSE with_side_um(q, side, calculated_side_um(q, side)),
        IF is_some(side_um(q, side))
        THEN validate_length_um(name, calculated_side_um(q, side), unwrap(side_um(q, side)))
        ELSE Ok)

\* === 3 sides + 2 angles ===

construct_from_ab_bc_da_angles_a_b(q) ==
    LET ab == unwrap(q.side_ab_um)
        bc == unwrap(q.side_bc_um)
        da == unwrap(q.side_da_um)
        angle_a == unwrap(q.angle_a)
        angle_b == unwrap(q.angle_b)
        v0 == Point(0, 0)
        v1 == Point(AsF64(ab), 0)
        v3 == Point(MulCos(da, angle_a), MulSin(da, angle_a))
        v2 == Point(AsF64(ab) + MulCos(bc, 180000 - angle_b), MulSin(bc, 180000 - angle_b))
    IN  ValidateOrDeriveSide(WithVertices(q, v0, v1, v2, v3), "CD", 2)

construct_from_bc_cd_ab_angles_b_c(q) ==
    LET bc == unwrap(q.side_bc_um)
        cd == unwrap(q.side_cd_um)
        ab == unwrap(q.side_ab_um)
        angle_b == unwrap(q.angle_b)
        angle_c == unwrap(q.angle_c)
        v1 == Point(0, 0)
        v2 == Point(AsF64(bc), 0)
        v0 == Point(-MulCos(ab, angle_b), MulSin(ab, angle_b))
        v3 == Point(AsF64(bc) + MulCos(cd, 180000 - angle_c), MulSin(cd, 180000 - angle_c))
    IN  ValidateOrDeriveSide(WithVertices(q, v0, v1, v2, v3), "DA", 3)

construct_from_cd_da_bc_angles_c_d(q) ==
    LET cd == unwrap(q.side_cd_um)
        da == unwrap(q.side_da_um)
        bc == unwrap(q.side_bc_um)
        angle_c == unwrap(q.angle_c)
        angle_d == unwrap(q.angle_d)
        v2 == Point(0, 0)
        v3 == Point(AsF64(cd), 0)
        v1 == Point(-MulCos(bc, angle_c), MulSin(bc, angle_c))
        v0 == Point(AsF64(cd) + MulCos(da, 180000 - angle_d), MulSin(da, 180000 - angle_d))
    IN  ValidateOrDeriveSide(WithVertices(q, v0, v1, v2, v3), "AB", 0)

construct_from_da_ab_cd_angles_d_a(q) ==
    LET da == unwrap(q.side_da_um)
        ab == unwrap(q.side_ab_um)
        cd == unwrap(q.side_cd_um)
        angle_d == unwrap(q.angle_d)
        angle_a == unwrap(q.angle_a)
        v0 == Point(0, 0)
        v1 == Point(AsF64(ab), 0)
        v3 == Point(MulCos(da, angle_a), MulSin(da, angle_a))
        v2 == Point(v3.x - MulCos(cd, 180000 - angle_d), v3.y - MulSin(cd, 180000 - angle_d))
    IN  ValidateOrDeriveSide(WithVertices(q, v0, v1, v2, v3), "BC", 1)

construct_from_bc_cd_da_angles_b_c(q) ==
    LET bc == unwrap(q.side_bc_um)
        cd == unwrap(q.side_cd_um)
        da == unwrap(q.side_da_um)
        angle_b == unwrap(q.angle_b)
        angle_c == unwrap(q.angle_c)
        v1 == Point(0, 0)
        v2 == Point(AsF64(bc), 0)
        v3 == Point(AsF64(bc) + MulCos(cd, 180000 - angle_c), MulSin(cd, 180000 - angle_c))
        v0 == Point(-MulCos(da, 180000 - angle_b), -MulSin(da, 180000 - angle_b))
    IN  ValidateOrDeriveSide(WithVertices(q, v0, v1, v2, v3), "AB", 0)

\* === all 4 sides + 2 angles ===

construct_from_all_sides_angles_a_b(q) ==
    LET ab == unwrap(q.side_ab_um)
        bc == unwrap(q.side_bc_um)
        da == unwrap(q.side_da_um)
        angle_a == unwrap(q.angle_a)
        angle_b == unwrap(q.angle_b)
        v0 == Point(0, 0)
        v1 == Point(AsF64(ab), 0)
        v3 == Point(MulCos(da, angle_a), MulSin(da, angle_a))
        v2 == Point(AsF64(ab) + MulCos(bc, 180000 - angle_b), MulSin(bc, 180000 - angle_b))
    IN  ValidateSide(WithVertices(q, v0, v1, v2, v3), "CD", 2)

construct_from_all_sides_angles_b_c(q) ==
    LET ab == unwrap(q.side_ab_um)
        bc == unwrap(q.side_bc_um)
        cd == unwrap(q.side_cd_um)
        da == unwrap(q.side_da_um)
        angle_b == unwrap(q.angle_b)
        angle_c == unwrap(q.angle_c)
        v1 == Point(0, 0)
        v2 == Point(AsF64(bc), 0)
        v0 == Point(-MulCos(ab, angle_b), MulSin(ab, angle_b))
        v3 == Point(AsF64(bc) + MulCos(cd, 180000 - angle_c), MulSin(cd, 180000 - angle_c))
    IN  ValidateSide(WithVertices(q, v0, v1, v2, v3), "DA", 3)

construct_from_all_sides_angles_c_d(q) ==
    LET ab == unwrap(q.side_ab_um)
        bc == unwrap(q.side_bc_um)
        cd == unwrap(q.side_cd_um)
        da == unwrap(q.side_da_um)
        angle_c == unwrap(q.angle_c)
        angle_d == unwrap(q.angle_d)
        v2 == Point(0, 0)
        v3 == Point(AsF64(cd), 0)
        v1 == Point(-MulCos(bc, angle_c), MulSin(bc, angle_c))
        v0 == Point(AsF64(cd) + MulCos(da, 180000 - angle_d), MulSin(da, 180000 - angle_d))
    IN  ValidateSide(WithVertices(q, v0, v1, v2, v3), "AB", 0)

construct_from_all_sides_angles_d_a(q) ==
    LET ab == unwrap(q.side_ab_um)
        bc == unwrap(q.side_bc_um)
        cd == unwrap(q.side_cd_um)
        da == unwrap(q.side_da_um)
        angle_d == unwrap(q.angle_d)
        angle_a == unwrap(q.angle_a)
        v3 == Point(0, 0)
        v0 == Point(AsF64(da), 0)
        v2 == Point(-MulCos(cd, angle_d), MulSin(cd, angle_d))
        v1 == Point(AsF64(da) + MulCos(ab, 180000 - angle_a), MulSin(ab, 180000 - angle_a))
    IN  ValidateSide(WithVertices(q, v0, v1, v2, v3), "BC", 1)

\* === all 4 sides + 1 angle (circle intersection) ===

\* "let p = find_circle_intersection(..)?; self.vertices[i] = p;
\*  self.calculate_angles_from_vertices(); Ok(())": q has the three directly
\* placed vertices already
ThenIntersection(q, i, ci) ==
    IF ci.err.kind # "Ok" THEN [q |-> q, res |-> ci.err]
    ELSE [q |-> calculate_angles_from_vertices([q EXCEPT !.vertices[i] = ci.p]),
          res |-> Ok]

construct_from_all_sides_angle_a(q) ==
    LET ab == unwrap(q.side_ab_um)
        bc == unwrap(q.side_bc_um)
        cd == unwrap(q.side_cd_um)
        da == unwrap(q.side_da_um)
        angle_a == unwrap(q.angle_a)
        v0 == Point(0, 0)
        v1 == Point(AsF64(ab), 0)
        v3 == Point(MulCos(da, angle_a), MulSin(da, angle_a))
        q1 == [q EXCEPT !.vertices[0] = v0, !.vertices[1] = v1, !.vertices[3] = v3]
    IN  ThenIntersection(q1, 2, find_circle_intersection(v1, AsF64(bc), v3, AsF64(cd)))

construct_from_all_sides_angle_b(q) ==
    LET ab == unwrap(q.side_ab_um)
        bc == unwrap(q.side_bc_um)
        cd == unwrap(q.side_cd_um)
        da == unwrap(q.side_da_um)
        angle_b == unwrap(q.angle_b)
        v1 == Point(0, 0)
        v0 == Point(-AsF64(ab), 0)
        v2 == Point(MulCos(bc, 180000 - angle_b), MulSin(bc, 180000 - angle_b))
        q1 == [q EXCEPT !.vertices[1] = v1, !.vertices[0] = v0, !.vertices[2] = v2]
    IN  ThenIntersection(q1, 3, find_circle_intersection(v0, AsF64(da), v2, AsF64(cd)))

construct_from_all_sides_angle_c(q) ==
    LET ab == unwrap(q.side_ab_um)
        bc == unwrap(q.side_bc_um)
        cd == unwrap(q.side_cd_um)
        da == unwrap(q.side_da_um)
        angle_c == unwrap(q.angle_c)
        v2 == Point(0, 0)
        v1 == Point(-AsF64(bc), 0)
        v3 == Point(MulCos(cd, 180000 - angle_c), MulSin(cd, 180000 - angle_c))
        q1 == [q EXCEPT !.vertices[2] = v2, !.vertices[1] = v1, !.vertices[3] = v3]
    IN  ThenIntersection(q1, 0, find_circle_intersection(v1, AsF64(ab), v3, AsF64(da)))

construct_from_all_sides_angle_d(q) ==
    LET ab == unwrap(q.side_ab_um)
        bc == unwrap(q.side_bc_um)
        cd == unwrap(q.side_cd_um)
        da == unwrap(q.side_da_um)
        angle_d == unwrap(q.angle_d)
        v3 == Point(0, 0)
        v2 == Point(-AsF64(cd), 0)
        v0 == Point(MulCos(da, 180000 - angle_d), MulSin(da, 180000 - angle_d))
        q1 == [q EXCEPT !.vertices[3] = v3, !.vertices[2] = v2, !.vertices[0] = v0]
    IN  ThenIntersection(q1, 1, find_circle_intersection(v0, AsF64(ab), v2, AsF64(bc)))

\* Variants of the selection of construct_quadrilateral.  has_sides and
\* has_angles test the fields numbered 1..4 (AB, BC, CD, DA and A, B, C, D).
has_sides(q, S) == \A i \in S : is_some(SidesOf(q)[i])
has_angles(q, A) == \A i \in A : is_some(AnglesOf(q)[i])

\* the tests for three sides, in the order of the source
three_sides_choice(q) ==
    IF has_sides(q, {1, 2, 4}) /\ ~has_sides(q, {3}) /\ has_angles(q, {1, 2})
    THEN "ab_bc_da_angles_a_b"
    ELSE IF has_sides(q, {2, 3, 1}) /\ ~has_sides(q, {4}) /\ has_angles(q, {2, 3})
    THEN "bc_cd_ab_angles_b_c"
    ELSE IF has_sides(q, {3, 4, 2}) /\ ~has_sides(q, {1}) /\ has_angles(q, {3, 4})
    THEN "cd_da_bc_angles_c_d"
    ELSE IF has_sides(q, {4, 1, 3}) /\ ~has_sides(q, {2}) /\ has_angles(q, {4, 1})
    THEN "da_ab_cd_angles_d_a"
    ELSE IF has_sides(q, {2, 3, 4}) /\ ~has_sides(q, {1}) /\ has_angles(q, {2, 3})
    THEN "bc_cd_da_angles_b_c"
    ELSE "none"

\* the tests for four sides and a pair of angles, in the order of the source
pair_choice(q) ==
    IF has_angles(q, {1, 2}) THEN "all_sides_angles_a_b"
    ELSE IF has_angles(q, {2, 3}) THEN "all_sides_angles_b_c"
    ELSE IF has_angles(q, {3, 4}) THEN "all_sides_angles_c_d"
    ELSE IF has_angles(q, {4, 1}) THEN "all_sides_angles_d_a"
    ELSE "none"

\* the tests for four sides and one angle, in the order of the source
single_choice(q) ==
    IF has_angles(q, {1}) THEN "all_sides_angle_a"
    ELSE IF has_angles(q, {2}) THEN "all_sides_angle_b"
    ELSE IF has_angles(q, {3}) THEN "all_sides_angle_c"
    ELSE IF has_angles(q, {4}) THEN "all_sides_angle_d"
    ELSE "none"

\* A variant that tests the pairs of angles in the order D&A, C&D, B&C, A&B
Dispatch_pairs_from_d_a(q) ==
    IF ~has_sides(q, 1..4) THEN three_sides_choice(q)
    ELSE IF has_angles(q, {4, 1}) THEN "all_sides_angles_d_a"
    ELSE IF has_angles(q, {3, 4}) THEN "all_sides_angles_c_d"
    ELSE IF has_angles(q, {2, 3}) THEN "all_sides_angles_b_c"
    ELSE IF has_angles(q, {1, 2}) THEN "all_sides_angles_a_b"
    ELSE single_choice(q)

\* A variant that tests the single angles before the pairs of angles
Dispatch_single_angles_first(q) ==
    IF ~has_sides(q, 1..4) THEN three_sides_choice(q)
    ELSE IF single_choice(q) # "none" THEN single_choice(q)
    ELSE pair_choice(q)

\* A variant without the fifth test for three sides: AB missing with B and C
Dispatch_four_three_side_tests(q) ==
    IF has_sides(q, 1..4) /\ pair_choice(q) # "none" THEN pair_choice(q)
    ELSE IF has_sides(q, 1..4) /\ single_choice(q) # "none" THEN single_choice(q)
    ELSE IF three_sides_choice(q) = "bc_cd_da_angles_b_c" THEN "none"
    ELSE three_sides_choice(q)

\* construct_quadrilateral, the selection: the name of the constructor the
\* chain of tests reaches first, "none" when it falls through
Dispatch(q) ==
    LET has_ab == is_some(q.side_ab_um)
        has_bc == is_some(q.side_bc_um)
        has_cd == is_some(q.side_cd_um)
        has_da == is_some(q.side_da_um)
        has_angle_a == is_some(q.angle_a)
        has_angle_b == is_some(q.angle_b)
        has_angle_c == is_some(q.angle_c)
        has_angle_d == is_some(q.angle_d)
        all_sides == has_ab /\ has_bc /\ has_cd /\ has_da
    IN  IF all_sides /\ has_angle_a /\ has_angle_b THEN "all_sides_angles_a_b"
        ELSE IF all_sides /\ has_angle_b /\ has_angle_c THEN "all_sides_angles_b_c"
        ELSE IF all_sides /\ has_angle_c /\ has_angle_d THEN "all_sides_angles_c_d"
        ELSE IF all_sides /\ has_angle_d /\ has_angle_a THEN "all_sides_angles_d_a"
        ELSE IF all_sides /\ has_angle_a THEN "all_sides_angle_a"
        ELSE IF all_sides /\ has_angle_b THEN "all_sides_angle_b"
        ELSE IF all_sides /\ has_angle_c THEN "all_sides_angle_c"
        ELSE IF all_sides /\ has_angle_d THEN "all_sides_angle_d"
        ELSE IF has_ab /\ has_bc /\ has_da /\ ~has_cd /\ has_angle_a /\ has_angle_b
             THEN "ab_bc_da_angles_a_b"
        ELSE IF has_bc /\ has_cd /\ has_ab /\ ~has_da /\ has_angle_b /\ has_angle_c
             THEN "bc_cd_ab_angles_b_c"
        ELSE IF has_cd /\ has_da /\ has_bc /\ ~has_ab /\ has_angle_c /\ has_angle_d
             THEN "cd_da_bc_angles_c_d"
        ELSE IF has_da /\ has_ab /\ has_cd /\ ~has_bc /\ has_angle_d /\ has_angle_a
             THEN "da_ab_cd_angles_d_a"
        ELSE IF has_bc /\ has_cd /\ has_da /\ ~has_ab /\ has_angle_b /\ has_angle_c
             THEN "bc_cd_da_angles_b_c"
        ELSE "none"

\* construct_quadrilateral, the call of the constructor selected: [q, res]
ConstructBy(s, q) ==
         CASE s = "all_sides_angles_a_b" -> construct_from_all_sides_angles_a_b(q)
          [] s = "all_sides_angles_b_c" -> construct_from_all_sides_angles_b_c(q)
          [] s = "all_sides_angles_c_d" -> construct_from_all_sides_angles_c_d(q)
          [] s = "all_sides_angles_d_a" -> construct_from_all_sides_angles_d_a(q)
          [] s = "all_sides_angle_a" -> construct_from_all_sides_angle_a(q)
          [] s = "all_sides_angle_b" -> construct_from_all_sides_angle_b(q)
          [] s = "all_sides_angle_c" -> construct_from_all_sides_angle_c(q)
          [] s = "all_sides_angle_d" -> construct_from_all_sides_angle_d(q)
          [] s = "ab_bc_da_angles_a_b" -> construct_from_ab_bc_da_angles_a_b(q)
          [] s = "bc_cd_ab_angles_b_c" -> construct_from_bc_cd_ab_angles_b_c(q)
          [] s = "cd_da_bc_angles_c_d" -> construct_from_cd_da_bc_angles_c_d(q)
          [] s = "da_ab_cd_angles_d_a" -> construct_from_da_ab_cd_angles_d_a(q)
          [] s = "bc_cd_da_angles_b_c" -> construct_from_bc_cd_da_angles_b_c(q)
          [] OTHER -> [q |-> q, res |-> UnsupportedCombination]

construct_quadrilateral(q) == ConstructBy(Dispatch(q), q)

---------------------------------------------------------------------------
(* Quadrilateral::calculate: [q, res, strategy]                            *)

\* A variant of is_solvable that takes any two angles with three sides
is_solvable_without_adjacency(q) ==
    LET sides_given == Count(SidesOf(q))
        angles_given == Count(AnglesOf(q))
    IN  \/ sides_given = 4 /\ angles_given \in 1..4
        \/ sides_given = 3 /\ angles_given \in 2..4

\* "let is_solvable = match (sides_given, angles_given) { .. }"
is_solvable(q) ==
    LET sides_given == Count(SidesOf(q))
        angles_given == Count(AnglesOf(q))
    IN  \/ sides_given = 4 /\ angles_given \in 1..4
        \/ sides_given = 3 /\ angles_given \in 2..4 /\ has_adjacent_angles(q)

\* "self.construct_quadrilateral()?; Ok(())": c is what the constructor
\* named s returned
Constructed(c, s) == [q |-> c.q, res |-> c.res, strategy |-> s]

\* "self.calculate_missing_angles()?; ..": m is what it returned
AfterMissingAngles(m) ==
    IF m.res.kind # "Ok"
    THEN [q |-> m.q, res |-> m.res, strategy |-> "none"]
    ELSE Constructed(construct_quadrilateral(m.q), Dispatch(m.q))

calculate(q) ==
    IF ~is_solvable(q)
    THEN [q |-> q, strategy |-> "none",
          res |-> InsufficientConstraints(Count(SidesOf(q)), Count(AnglesOf(q)))]
    ELSE AfterMissingAngles(calculate_missing_angles(q))

---------------------------------------------------------------------------
(* geometry/types.rs: the setters                                          *)

\* mm_to_um: (mm * 1000.0).round() as i64.  A millimeter value is modelled
\* in tenths of a micrometer.
mm_to_um(mm) == RoundDiv(mm, 10)

\* A variant of set_side_mm that also discards the angles entered so far
set_side_mm_clearing_angles(q, side, mm) ==
    [with_side_um(q, side, mm_to_um(mm)) EXCEPT
        !.angle_a = None, !.angle_b = None, !.angle_c = None, !.angle_d = None]

\* set_side_mm; side is 0..3 for "AB", "BC", "CD", "DA"
set_side_mm(q, side, mm) ==
    LET um == mm_to_um(mm)
    IN  IF side = 0 THEN [q EXCEPT !.side_ab_um = Some(um)]
        ELSE IF side = 1 THEN [q EXCEPT !.side_bc_um = Some(um)]
        ELSE IF side = 2 THEN [q EXCEPT !.side_cd_um = Some(um)]
        ELSE IF side = 3 THEN [q EXCEPT !.side_da_um = Some(um)]
        ELSE q

\* "self.quad.angle_x = input.parse::<f64>().ok()"; vertex is 0..3
set_angle(q, vertex, deg) ==
    IF vertex = 0 THEN [q EXCEPT !.angle_a = Some(deg)]
    ELSE IF vertex = 1 THEN [q EXCEPT !.angle_b = Some(deg)]
    ELSE IF vertex = 2 THEN [q EXCEPT !.angle_c = Some(deg)]
    ELSE [q EXCEPT !.angle_d = Some(deg)]

---------------------------------------------------------------------------
(* geometry/types.rs: the unit conversions in floating point.  A float is  *)
(* [m, e] with value m * 2^e and 2^(MantissaBits-1) <= |m| < 2^MantissaBits *)
(* (or m = 0); every operation rounds its exact result to the nearest      *)
(* float, ties to even, as IEEE 754 does.  f64 has a 53-bit significand;   *)
(* MantissaBits scales it down so that the integers at the limit of the    *)
(* significand are within reach.  Exponent overflow and subnormals do not  *)
(* occur at these magnitudes.                                              *)

MantissaBits == 12

RECURSIVE TwoTo(_)
TwoTo(i) == IF i = 0 THEN 1 ELSE 2 * TwoTo(i - 1)

\* n/d rounded to the nearest integer, ties to even; n >= 0, d > 0
RoundHalfEven(n, d) ==
    IF 2 * (n % d) > d \/ (2 * (n % d) = d /\ (n \div d) % 2 = 1)
    THEN (n \div d) + 1 ELSE n \div d

Float(m, e) == [m |-> m, e |-> e]

\* a significand that rounded up to 2^MantissaBits moves to the next exponent
Renormalize(s, m, e) ==
    IF m = TwoTo(MantissaBits) THEN Float(s * (m \div 2), e + 1) ELSE Float(s * m, e)

\* the float nearest to s * (n/d) * 2^e, for n, d > 0
RECURSIVE NearestF64(_, _, _, _)
NearestF64(s, n, d, e) ==
    IF n < d * TwoTo(MantissaBits - 1) THEN NearestF64(s, 2 * n, d, e - 1)
    ELSE IF n >= d * TwoTo(MantissaBits) THEN NearestF64(s, n, 2 * d, e + 1)
    ELSE Renormalize(s, RoundHalfEven(n, d), e)

\* the float nearest to (n/d) * 2^e, d > 0
F64(n, d, e) == IF n = 0 THEN Float(0, 0) ELSE NearestF64(Sgn(n), Abs(n), d, e)

\* "um as f64"
i64_as_f64(um) == F64(um, 1, 0)
\* x / c and x * c for a float x and a positive integer constant c
DivF64(x, c) == F64(x.m, c, x.e)
MulF64(x, c) == F64(x.m * c, 1, x.e)
\* f64::round (halves away from zero) followed by "as i64"
RoundF64(x) ==
    IF x.e >= 0 THEN x.m * TwoTo(x.e)
    ELSE IF -x.e > MantissaBits THEN 0
    ELSE RoundDiv(x.m, TwoTo(-x.e))
\* "as i64" alone: truncation toward zero
TruncF64(x) ==
    IF x.e >= 0 THEN x.m * TwoTo(x.e)
    ELSE IF -x.e > MantissaBits THEN 0
    ELSE TruncDiv(x.m, TwoTo(-x.e))

\* um_to_mm: um as f64 / 1000.0
um_to_mm(um) == DivF64(i64_as_f64(um), 1000)

\* A variant of mm_to_um that casts without rounding first
mm_to_um_truncating(mm) == TruncF64(MulF64(mm, 1000))

\* mm_to_um on a float: (mm * 1000.0).round() as i64
mm_to_um_f64(mm) == RoundF64(MulF64(mm, 1000))

---------------------------------------------------------------------------
(* updater.rs: is_version_newer.  A version string is modelled as the      *)
(* sequence of its dot-separated components, each a string.                *)

\* "s.parse().ok()" to u32 on the component texts in use: decimal digits
\* parse (leading zeros allowed), anything else does not
parse_u32(s) ==
    CASE s = "0" -> Some(0)
      [] s = "1" -> Some(1)
      [] s = "01" -> Some(1)
      [] s = "2" -> Some(2)
      [] OTHER -> None

\* parse_version: v.split('.').filter_map(|s| s.parse().ok()).collect()
RECURSIVE parse_version(_)
parse_version(v) ==
    IF v = << >> THEN << >>
    ELSE IF is_some(parse_u32(Head(v)))
         THEN <<unwrap(parse_u32(Head(v)))>> \o parse_version(Tail(v))
         ELSE parse_version(Tail(v))

\* A variant of the comparison that ignores the components one version has
\* beyond the other
RECURSIVE compare_parts_shared_only(_, _, _)
compare_parts_shared_only(current_parts, latest_parts, i) ==
    IF i > Len(current_parts) \/ i > Len(latest_parts) THEN FALSE
    ELSE IF latest_parts[i] > current_parts[i] THEN TRUE
    ELSE IF latest_parts[i] < current_parts[i] THEN FALSE
    ELSE compare_parts_shared_only(current_parts, latest_parts, i + 1)

\* the loop over current_parts.iter().zip(latest_parts.iter()) from pair i
\* on, and the comparison of the lengths after it
RECURSIVE compare_parts(_, _, _)
compare_parts(current_parts, latest_parts, i) ==
    IF i > Len(current_parts) \/ i > Len(latest_parts)
    THEN Len(latest_parts) > Len(current_parts)
    ELSE IF latest_parts[i] > current_parts[i] THEN TRUE
    ELSE IF latest_parts[i] < current_parts[i] THEN FALSE
    ELSE compare_parts(current_parts, latest_parts, i + 1)

is_version_newer(current, latest) ==
    compare_parts(parse_version(current), parse_version(latest), 1)

\* const CURRENT_VERSION: env!("CARGO_PKG_VERSION")
CURRENT_VERSION == <<"1", "0">>

\* release.tag_name.trim_start_matches('v') on the tags in use
trim_start_matches_v(tag_name) ==
    IF tag_name = << >> THEN tag_name
    ELSE <<CASE Head(tag_name) = "v1" -> "1"
             [] Head(tag_name) = "v2" -> "2"
             [] OTHER -> Head(tag_name)>> \o Tail(tag_name)

\* struct UpdateInfo
UpdateInfo(available, current_version, latest_version, download_url) ==
    [ available |-> available,
      current_version |-> current_version,
      latest_version |-> latest_version,
      download_url |-> download_url ]

\* what check_for_updates() and the task around it fall back to
NoUpdateInfo == UpdateInfo(FALSE, CURRENT_VERSION, CURRENT_VERSION, None)

\* updater::check_for_updates; response is what the request to GitHub came
\* to: "error" (the request or the JSON failed), "status" (not a success
\* status), or "release" with the tag name and the download URL of the
\* Windows .exe asset, if the release has one.  None stands for Err(_).
check_for_updates(response) ==
    CASE response.kind = "error" -> None
      [] response.kind = "status" -> Some(NoUpdateInfo)
      [] OTHER ->
            Some(UpdateInfo(
                is_version_newer(CURRENT_VERSION, trim_start_matches_v(response.tag_name))
                    /\ is_some(response.download_url),
                CURRENT_VERSION,
                trim_start_matches_v(response.tag_name),
                response.download_url))

\* the task check_for_updates spawns: "match updater::check_for_updates()
\* .await { Ok(info) => Some(info), Err(_) => Some(UpdateInfo { .. }) }"
CheckedInfo(checked) == IF is_some(checked) THEN unwrap(checked) ELSE NoUpdateInfo

---------------------------------------------------------------------------
(* ui.rs: the input texts.  A String is a sequence of one-character        *)
(* strings; an f64 read from a text is the fraction num/den it denotes.    *)

\* input.replace(',', ".")
replace(s, from, to) == [i \in DOMAIN s |-> IF s[i] = from THEN to ELSE s[i]]

Digits == <<"0", "1", "2", "3", "4", "5", "6", "7", "8", "9">>
IsDigit(c) == \E d \in DOMAIN Digits : Digits[d] = c
DigitValue(c) == (CHOOSE d \in DOMAIN Digits : Digits[d] = c) - 1

\* the digits of s read as a decimal number
RECURSIVE DecimalValue(_)
DecimalValue(s) ==
    IF s = << >> THEN 0
    ELSE 10 * DecimalValue(SubSeq(s, 1, Len(s) - 1)) + DigitValue(s[Len(s)])

RECURSIVE TenTo(_)
TenTo(i) == IF i = 0 THEN 1 ELSE 10 * TenTo(i - 1)

\* str::parse::<f64> on the texts a length or an angle is typed as: an
\* optional sign, digits, and at most one '.' with digits on either side
\* (one side may be empty, not both).  Anything else is Err, here None.
parse_f64(s) ==
    LET signed == s # << >> /\ s[1] \in {"+", "-"}
        body == IF signed THEN SubSeq(s, 2, Len(s)) ELSE s
        dots == {i \in DOMAIN body : body[i] = "."}
        dot == IF dots = {} THEN Len(body) + 1 ELSE CHOOSE i \in dots : TRUE
        whole == SubSeq(body, 1, dot - 1)
        frac == SubSeq(body, dot + 1, Len(body))
    IN  IF /\ Cardinality(dots) <= 1
           /\ Len(whole) + Len(frac) > 0
           /\ \A i \in DOMAIN body : i \in dots \/ IsDigit(body[i])
        THEN Some([num |-> (IF signed /\ s[1] = "-" THEN -1 ELSE 1)
                             * DecimalValue(whole \o frac),
                   den |-> TenTo(Len(frac))])
        ELSE None

\* the f64 x in units of 1/scale: millimeters in tenths of a micrometer,
\* degrees in millidegrees
InUnits(x, scale) == RoundDiv(x.num * scale, x.den)

---------------------------------------------------------------------------
(* ui.rs: CadApp                                                           *)

\* impl Default for CadApp; update_info is the Option behind the mutex
CadAppDefault ==
    [ calculated |-> FALSE,
      error_message |-> None,
      custom_lines |-> << >>,
      input_ab |-> << >>, input_bc |-> << >>,
      input_cd |-> << >>, input_da |-> << >>,
      input_angle_a |-> << >>, input_angle_b |-> << >>,
      input_angle_c |-> << >>, input_angle_d |-> << >>,
      show_help |-> FALSE,
      drawing_line |-> FALSE,
      line_start |-> None,
      preview_end |-> None,
      dragging_line_idx |-> None,
      drag_offset |-> Point(0, 0),
      hovered_line |-> None,
      update_info |-> None,
      checking_update |-> FALSE,
      show_update_dialog |-> FALSE,
      update_status |-> "" ]

\* the eight input texts in the order AB, BC, CD, DA, A, B, C, D
InputsOf(a) ==
    << a.input_ab, a.input_bc, a.input_cd, a.input_da,
       a.input_angle_a, a.input_angle_b, a.input_angle_c, a.input_angle_d >>

\* the text edit of input i (1..8) holds text
with_input(a, i, text) ==
    CASE i = 1 -> [a EXCEPT !.input_ab = text]
      [] i = 2 -> [a EXCEPT !.input_bc = text]
      [] i = 3 -> [a EXCEPT !.input_cd = text]
      [] i = 4 -> [a EXCEPT !.input_da = text]
      [] i = 5 -> [a EXCEPT !.input_angle_a = text]
      [] i = 6 -> [a EXCEPT !.input_angle_b = text]
      [] i = 7 -> [a EXCEPT !.input_angle_c = text]
      [] i = 8 -> [a EXCEPT !.input_angle_d = text]

\* A variant of the reset that keeps what the instance holds
ResetFields_keeping(q) == q

\* "Setze ALLE Werte zurück": the eight fields, not the vertices
ResetFields(q) ==
    [q EXCEPT !.side_ab_um = None, !.side_bc_um = None,
              !.side_cd_um = None, !.side_da_um = None,
              !.angle_a = None, !.angle_b = None,
              !.angle_c = None, !.angle_d = None]

\* "if !input.is_empty() { if let Ok(mm) = input.replace(',', ".").parse()
\*  { self.quad.set_side_mm(name, mm) } }"
SideFromInput(q, side, input) ==
    LET mm == parse_f64(replace(input, ",", "."))
    IN  IF input # << >> /\ is_some(mm)
        THEN set_side_mm(q, side, InUnits(unwrap(mm), 10000))
        ELSE q

\* "if !input.is_empty() { self.quad.angle_x = input.replace(',', ".")
\*  .parse::<f64>().ok() }"
AngleFromInput(q, vertex, input) ==
    LET deg == parse_f64(replace(input, ",", "."))
        angle == IF is_some(deg) THEN Some(InUnits(unwrap(deg), 1000)) ELSE None
    IN  IF input = << >> THEN q
        ELSE IF vertex = 0 THEN [q EXCEPT !.angle_a = angle]
        ELSE IF vertex = 1 THEN [q EXCEPT !.angle_b = angle]
        ELSE IF vertex = 2 THEN [q EXCEPT !.angle_c = angle]
        ELSE [q EXCEPT !.angle_d = angle]

\* the instance calculate_quadrilateral hands to calculate(): the fields
\* reset, then set from the eight inputs in turn
RECURSIVE FromInputs(_, _, _)
FromInputs(q, inputs, i) ==
    IF i > 8 THEN q
    ELSE FromInputs(IF i <= 4 THEN SideFromInput(q, i - 1, inputs[i])
                    ELSE AngleFromInput(q, i - 5, inputs[i]),
                    inputs, i + 1)

\* A variant of the match that shows the shape whatever calculate() returned
AfterCalculate_always_shown(a, c) ==
    IF c.res = Ok
    THEN [a EXCEPT !.calculated = TRUE, !.custom_lines = << >>]
    ELSE [a EXCEPT !.error_message = Some(c.res), !.calculated = TRUE]

\* A variant of the match that keeps the custom lines
AfterCalculate_keeping_lines(a, c) ==
    IF c.res = Ok
    THEN [a EXCEPT !.calculated = TRUE]
    ELSE [a EXCEPT !.error_message = Some(c.res), !.calculated = FALSE]

\* "match self.quad.calculate() { Ok(_) => ..., Err(e) => ... }"
AfterCalculate(a, c) ==
    IF c.res = Ok
    THEN [a EXCEPT !.calculated = TRUE, !.custom_lines = << >>]
    ELSE [a EXCEPT !.error_message = Some(c.res), !.calculated = FALSE]

\* calculate_quadrilateral up to the call of calculate()
PrepareCalculate(a, q) ==
    [ app |-> [a EXCEPT !.error_message = None],
      q |-> FromInputs(ResetFields(q), InputsOf(a), 1) ]

---------------------------------------------------------------------------
(* ui.rs: the canvas.  to_screen scales and shifts, so the pointer and the *)
(* hit tests are taken in the coordinates of the quadrilateral, at the     *)
(* zoom of one pixel per grid unit.  A ratio along a side is in hundredths.*)

\* Quadrilateral::get_point_on_side (types.rs)
get_point_on_side(q, side, ratio) ==
    LET v1 == q.vertices[IF side \in 0..3 THEN side ELSE 0]
        v2 == q.vertices[IF side \in 0..3 THEN (side + 1) % 4 ELSE 1]
    IN  IF IsNaNPoint(v1) \/ IsNaNPoint(v2) THEN NaNPoint
        ELSE Point(v1.x + RoundDiv((v2.x - v1.x) * ratio, 100),
                   v1.y + RoundDiv((v2.y - v1.y) * ratio, 100))

\* angle_between_vectors (utils.rs): acos of the normalised dot product
angle_between_vectors(v1_x, v1_y, v2_x, v2_y) ==
    IF (v1_x = 0 /\ v1_y = 0) \/ (v2_x = 0 /\ v2_y = 0) THEN 0
    ELSE Atan2Mdeg(Abs(v1_x * v2_y - v1_y * v2_x), v1_x * v2_x + v1_y * v2_y)

\* calculate_intersection_angle (utils.rs)
calculate_intersection_angle(side_start, side_end, intersection, line_other_end) ==
    angle_between_vectors(side_end.x - side_start.x, side_end.y - side_start.y,
                          line_other_end.x - intersection.x,
                          line_other_end.y - intersection.y)

\* the dot product of p - line_start with the line, clamped as t is
ClampedDot(p, line_start, line_end) ==
    LET dot == (p.x - line_start.x) * (line_end.x - line_start.x)
                 + (p.y - line_start.y) * (line_end.y - line_start.y)
        line_len_sq == Dist2(line_start, line_end)
    IN  IF dot < 0 THEN 0 ELSE IF dot > line_len_sq THEN line_len_sq ELSE dot

\* "line_start + t * line_vec"
Projection(line_start, line_end, dot) ==
    LET line_len_sq == Dist2(line_start, line_end)
    IN  IF line_len_sq = 0 THEN line_start
        ELSE Point(line_start.x + MulDiv(line_end.x - line_start.x, dot, line_len_sq),
                   line_start.y + MulDiv(line_end.y - line_start.y, dot, line_len_sq))

\* point_to_line_distance, squared
point_to_line_distance(p, line_start, line_end) ==
    Dist2(p, Projection(line_start, line_end, ClampedDot(p, line_start, line_end)))

\* project_point_on_line, in hundredths
project_point_on_line(p, line_start, line_end) ==
    IF Dist2(line_start, line_end) = 0 THEN 0
    ELSE RoundDiv(100 * ClampedDot(p, line_start, line_end), Dist2(line_start, line_end))

\* "(pos - screen).length() < px"
Within(p, target, px) == Dist2(p, target) < px * px

\* the distance of pos to side i of the drawn shape, squared
DistToSide(q, pos, i) ==
    point_to_line_distance(pos, q.vertices[i], q.vertices[(i + 1) % 4])

RatioOnSide(q, pos, i) ==
    project_point_on_line(pos, q.vertices[i], q.vertices[(i + 1) % 4])

\* "for i in 0..4 { if dist < 10.0 { ...; break; } }": the first side hit
SidesHit(q, pos) == {i \in 0..3 : DistToSide(q, pos, i) < 100}
FirstOf(S) == CHOOSE i \in S : \A j \in S : i <= j

\* "if dist < min_dist { min_dist = dist; best_side = side_idx; }": the
\* first of the sides at the least of the distances dist[0..3]
FirstNearest(dist) ==
    CHOOSE s \in 0..3 : \A t \in 0..3 :
        dist[s] < dist[t] \/ (dist[s] = dist[t] /\ s <= t)

best_side(q, pos) == FirstNearest([i \in 0..3 |-> DistToSide(q, pos, i)])

\* the CustomLine both the drag and the drawing of a new line build
CustomLine(q, start, start_side, start_ratio, end, end_side, end_ratio) ==
    [ start |-> start,
      end |-> end,
      length_um |-> distance_um(start, end),
      start_side |-> start_side,
      end_side |-> end_side,
      start_ratio |-> start_ratio,
      end_ratio |-> end_ratio,
      start_angle |-> calculate_intersection_angle(
                          q.vertices[start_side], q.vertices[(start_side + 1) % 4],
                          start, end),
      end_angle |-> calculate_intersection_angle(
                          q.vertices[end_side], q.vertices[(end_side + 1) % 4],
                          end, start) ]

\* the 0-based indices of the lines with an end point under the pointer
EndpointsAt(lines, pos) ==
    {idx \in 0..(Len(lines) - 1) :
        \/ Within(pos, lines[idx + 1].start, 12)
        \/ Within(pos, lines[idx + 1].end, 12)}

\* ... and of the lines that are under the pointer themselves
LinesAt(lines, pos) ==
    {idx \in 0..(Len(lines) - 1) :
        point_to_line_distance(pos, lines[idx + 1].start, lines[idx + 1].end) < 225}

\* "Hover-Erkennung": r is the frame's Response of the painter
AfterHover(a, r) ==
    LET hits == EndpointsAt(a.custom_lines, r.pos) \cup LinesAt(a.custom_lines, r.pos)
    IN  [a EXCEPT !.hovered_line =
            IF ~a.drawing_line /\ is_none(a.dragging_line_idx) /\ hits # {}
            THEN Some(FirstOf(hits)) ELSE None]

\* A variant of the test that lets a drag of an end point start while a
\* new line is being drawn
MayStartDrag_while_drawing(a, r) == r.drag_started

\* "if response.drag_started() && !self.drawing_line"
MayStartDrag(a, r) == r.drag_started /\ ~a.drawing_line

\* "DRAG START": the first line with an end point under the pointer
AfterDragStart(a, r) ==
    LET hits == EndpointsAt(a.custom_lines, r.pos)
        line == a.custom_lines[FirstOf(hits) + 1]
    IN  IF MayStartDrag(a, r) /\ hits # {}
        THEN [a EXCEPT
                !.dragging_line_idx = Some(FirstOf(hits)),
                !.drag_offset = IF Dist2(r.pos, line.start) < Dist2(r.pos, line.end)
                                THEN Point(0, 0) ELSE Point(1, 0)]
        ELSE a

\* "let current_line = &self.custom_lines[drag_idx];" is reached with an
\* index that is out of bounds
IndexOutOfBounds(a, r) ==
    /\ is_some(a.dragging_line_idx)
    /\ r.dragged
    /\ unwrap(a.dragging_line_idx) >= Len(a.custom_lines)

\* the line a drag to side and ratio makes of current_line
MovedLine(q, current_line, moving_start, side, ratio) ==
    IF moving_start
    THEN CustomLine(q, get_point_on_side(q, side, ratio), side, ratio,
                    current_line.end, current_line.end_side, current_line.end_ratio)
    ELSE CustomLine(q, current_line.start, current_line.start_side,
                    current_line.start_ratio,
                    get_point_on_side(q, side, ratio), side, ratio)

\* the point of side nearest to pos becomes an end of the dragged line
DraggedTo(a, q, pos, side) ==
    [a EXCEPT !.custom_lines[unwrap(a.dragging_line_idx) + 1] =
        MovedLine(q, @, a.drag_offset.x = 0, side, RatioOnSide(q, pos, side))]

\* "WÄHREND DES VERSCHIEBENS", with drag_idx in bounds
AfterDragMove(a, q, r) ==
    IF is_some(a.dragging_line_idx) /\ r.dragged
    THEN DraggedTo(a, q, r.pos, best_side(q, r.pos))
    ELSE a

\* "if response.drag_stopped() { self.dragging_line_idx = None; }"
AfterDragStop(a, r) ==
    IF r.drag_stopped THEN [a EXCEPT !.dragging_line_idx = None] ELSE a

\* a new line starts at pos on one of the sides hit
LineStartedOn(a, q, pos, hit) ==
    IF hit = {} THEN a
    ELSE [a EXCEPT
            !.line_start = Some(<<FirstOf(hit), RatioOnSide(q, pos, FirstOf(hit)), pos>>),
            !.drawing_line = TRUE]

\* "ZEICHNEN NEUER LINIEN": the start of a line on the first side hit
AfterLineStart(a, q, r) ==
    IF r.drag_started /\ ~a.drawing_line
    THEN LineStartedOn(a, q, r.pos, SidesHit(q, r.pos))
    ELSE a

\* "if self.drawing_line { self.preview_end = Some(pos); ... }"
AfterPreview(a, r) ==
    IF a.drawing_line THEN [a EXCEPT !.preview_end = Some(r.pos)] ELSE a

\* the line from line_start to end_ratio on side i
NewLine(q, line_start, i, end_ratio) ==
    CustomLine(q, get_point_on_side(q, line_start[1], line_start[2]),
               line_start[1], line_start[2],
               get_point_on_side(q, i, end_ratio), i, end_ratio)

\* the drawing ends at pos: a line is pushed if a side is hit there
LineEndedOn(a, q, pos, hit) ==
    [a EXCEPT
        !.custom_lines =
            IF is_some(a.line_start) /\ hit # {}
            THEN Append(@, NewLine(q, unwrap(a.line_start), FirstOf(hit),
                                   RatioOnSide(q, pos, FirstOf(hit))))
            ELSE @,
        !.drawing_line = FALSE,
        !.line_start = None,
        !.preview_end = None]

\* "if response.drag_stopped() && self.drawing_line"
AfterLineEnd(a, q, r) ==
    IF r.drag_stopped /\ a.drawing_line
    THEN LineEndedOn(a, q, r.pos, SidesHit(q, r.pos))
    ELSE a

\* "if self.dragging_line_idx.is_none() { ... }"
AfterNewLine(a, q, r) ==
    IF is_none(a.dragging_line_idx)
    THEN AfterLineEnd(AfterPreview(AfterLineStart(a, q, r), r), q, r)
    ELSE a

\* the pointer handling of draw_quadrilateral from the drag of an end point
\* on, with drag_idx in bounds
AfterDrag(a, q, r) == AfterNewLine(AfterDragStop(AfterDragMove(a, q, r), r), q, r)

---------------------------------------------------------------------------
(* The solver as its caller drives it (ui.rs, calculate_quadrilateral):    *)
(* the instance of Quadrilateral::new() with its eight fields reset, the   *)
(* eight inputs visited in the order AB, BC, CD, DA, A, B, C, D, each left *)
(* unset or set, then calculate(): the first calculation of a session.     *)

MaxSide == 3
\* side inputs in tenths of a micrometer: 30.0, 40.0, ... um
SideInputs == {100 * (k + 2) : k \in 1..MaxSide}
\* angle inputs in millidegrees
AngleInputs == {60000, 90000, 120000}

Init ==
    /\ quad = NewQuadrilateral
    /\ field = 0
    /\ old = NewQuadrilateral
    /\ result = NoResult
    /\ strategy = "none"
    /\ app = CadAppDefault
    /\ tasks = << >>
    /\ main = "running"
    /\ fin = << >>
    /\ fout = << >>

\* an input text that is empty or does not parse: the field stays None
SkipField ==
    /\ field < 8
    /\ field' = field + 1
    /\ UNCHANGED <<quad, old, result, strategy, fin, fout, app, tasks, main>>

SetSide(S) ==
    /\ field < 4
    /\ \E mm \in S : quad' = set_side_mm(quad, field, mm)
    /\ field' = field + 1
    /\ UNCHANGED <<old, result, strategy, fin, fout, app, tasks, main>>

SetAngle(A) ==
    /\ field \in 4..7
    /\ \E deg \in A : quad' = set_angle(quad, field - 4, deg)
    /\ field' = field + 1
    /\ UNCHANGED <<old, result, strategy, fin, fout, app, tasks, main>>

\* what calculate() leaves behind: the instance and the Result
Returned(c) ==
    /\ quad' = c.q
    /\ result' = c.res
    /\ strategy' = c.strategy

Calculate ==
    /\ field = 8
    /\ Returned(calculate(quad))
    /\ old' = quad
    /\ field' = 9
    /\ UNCHANGED <<fin, fout, app, tasks, main>>

Next == SkipField \/ SetSide(SideInputs) \/ SetAngle(AngleInputs) \/ Calculate

Spec == Init /\ [][Next]_vars

---------------------------------------------------------------------------
(* The same caller with angle inputs on the boundaries of the checks of    *)
(* calculate_missing_angles: four angles that sum to 359.5, 360, 360.5 and *)
(* beyond, three angles that sum to 0, to 360 and to either side of both.  *)
(* All of them are multiples of half a degree, so that the f64 sums of the *)
(* source are exact.                                                       *)

\* side inputs in tenths of a micrometer
BoundarySides == {300, 400}
\* angle inputs in millidegrees
BoundaryAngles == {-210000, 89500, 90000, 90500, 120000}

NextAngles ==
    SkipField \/ SetSide(BoundarySides) \/ SetAngle(BoundaryAngles) \/ Calculate

SpecAngles == Init /\ [][NextAngles]_vars

---------------------------------------------------------------------------
(* The same caller with inputs that bring the two circles of the one-angle *)
(* constructors into every relative position: apart (d > r1 + r2), one     *)
(* inside the other (d < |r1 - r2|), crossing, touching, and coincident.   *)
(* An angle of 0 is offered at A only: cos 0 and sin 0 are exact in f64,   *)
(* so B and D of all_sides_angle_a coincide exactly when AB = DA.          *)

\* side inputs in tenths of a micrometer
CircleSides == {300, 500}
\* angle inputs in millidegrees
CircleAngles == {30000, 90000, 150000}
CircleAnglesAtA == {0} \cup CircleAngles

NextCircles ==
    \/ SkipField
    \/ SetSide(CircleSides)
    \/ SetAngle(IF field = 4 THEN CircleAnglesAtA ELSE CircleAngles)
    \/ Calculate

SpecCircles == Init /\ [][NextCircles]_vars

---------------------------------------------------------------------------
(* validate_length_um on its own: the lengths a solver run can reach keep  *)
(* the tolerance at 1 um, the 0.1% regime starts at 2000 um.               *)

MaxExpected == 12
MaxDeviation == 4
\* expected lengths in um: 0, 250, .., 3000
ExpectedInputs == {250 * k : k \in 0..MaxExpected}
SideNames == {"AB", "BC", "CD", "DA"}

InitClosure ==
    /\ quad = NewQuadrilateral
    /\ field = 0
    /\ old = NewQuadrilateral
    /\ result = NoResult
    /\ strategy = "none"
    /\ app = CadAppDefault
    /\ tasks = << >>
    /\ main = "running"
    /\ fin \in {<<name, e + d, e>> :
                   name \in SideNames, e \in ExpectedInputs,
                   d \in (-MaxDeviation)..MaxDeviation}
    /\ fin[2] >= 0
    /\ fout = << >>

ValidateLength ==
    /\ fin # << >>
    /\ fout = << >>
    /\ fout' = << validate_length_um(fin[1], fin[2], fin[3]) >>
    /\ UNCHANGED <<quad, field, old, result, strategy, fin, app, tasks, main>>

NextClosure == ValidateLength

SpecClosure == InitClosure /\ [][NextClosure]_vars

---------------------------------------------------------------------------
(* The unit conversions on their own: a micrometer value is converted to   *)
(* millimeters, back to micrometers, and to millimeters again.  The values *)
(* reach 2^(MantissaBits-1), where an integer takes every bit of the       *)
(* significand.                                                            *)

MaxUm == TwoTo(MantissaBits - 1)

InitUnits ==
    /\ quad = NewQuadrilateral
    /\ field = 0
    /\ old = NewQuadrilateral
    /\ result = NoResult
    /\ strategy = "none"
    /\ app = CadAppDefault
    /\ tasks = << >>
    /\ main = "running"
    /\ fin \in {<<k>> : k \in (-MaxUm)..MaxUm}
    /\ fout = << >>

UmToMm ==
    /\ Len(fout) \in {0, 2}
    /\ fout' = Append(fout, um_to_mm(IF fout = << >> THEN fin[1] ELSE fout[2]))
    /\ UNCHANGED <<quad, field, old, result, strategy, fin, app, tasks, main>>

MmToUm ==
    /\ Len(fout) = 1
    /\ fout' = Append(fout, mm_to_um_f64(fout[1]))
    /\ UNCHANGED <<quad, field, old, result, strategy, fin, app, tasks, main>>

NextUnits == UmToMm \/ MmToUm

SpecUnits == InitUnits /\ [][NextUnits]_vars

---------------------------------------------------------------------------
(* is_version_newer on its own, called in both directions on a pair of     *)
(* version strings of up to MaxParts components: numbers, a number with a  *)
(* leading zero, and a component that is not a number.                     *)

MaxParts == 3
Components == {"0", "1", "01", "x"}
Versions == UNION {[1..n -> Components] : n \in 1..MaxParts}

InitVersion ==
    /\ quad = NewQuadrilateral
    /\ field = 0
    /\ old = NewQuadrilateral
    /\ result = NoResult
    /\ strategy = "none"
    /\ app = CadAppDefault
    /\ tasks = << >>
    /\ main = "running"
    /\ fin \in {<<current, latest>> : current \in Versions, latest \in Versions}
    /\ fout = << >>

IsVersionNewer ==
    /\ fout = << >>
    /\ fout' = << is_version_newer(fin[1], fin[2]) >>
    /\ UNCHANGED <<quad, field, old, result, strategy, fin, app, tasks, main>>

IsVersionNewerSwapped ==
    /\ Len(fout) = 1
    /\ fout' = Append(fout, is_version_newer(fin[2], fin[1]))
    /\ UNCHANGED <<quad, field, old, result, strategy, fin, app, tasks, main>>

NextVersion == IsVersionNewer \/ IsVersionNewerSwapped

SpecVersion == InitVersion /\ [][NextVersion]_vars

---------------------------------------------------------------------------
(* The side panel of the window (ui.rs, update and calculate_quadrilateral)*)
(* over a session: the user edits the input texts, clicks "Berechnen" and  *)
(* dismisses the error dialog, in any order and any number of times.  fin  *)
(* keeps the eight texts as they were at the last click.                   *)

Text003 == <<"0", ",", "0", "3">>
Text005 == <<"0", ".", "0", "5">>
Text90 == <<"9", "0">>
\* the texts offered for each input (1..8): empty, valid with a comma or a
\* point, and one that does not parse
CalculateTexts ==
    [i \in 1..8 |->
        CASE i = 1 -> {<< >>, Text003, Text005}
          [] i \in 2..4 -> {<< >>, Text003}
          [] i = 5 -> {<< >>, Text90, <<"9", "0", "x">>}
          [] i = 6 -> {<< >>, Text90}
          [] OTHER -> {<< >>}]

\* a text edit of the side panel changed its input
EditInput(Texts) ==
    /\ main = "running"
    /\ \E i \in 1..8 : \E text \in Texts[i] :
          /\ text # InputsOf(app)[i]
          /\ app' = with_input(app, i, text)
    /\ UNCHANGED <<quad, field, old, result, strategy, fin, fout, tasks, main>>

\* calculate_quadrilateral from the call of calculate() on; p is the state
\* before the call and c what calculate() returned
Solved(p, c) ==
    /\ app' = AfterCalculate(p.app, c)
    /\ Returned(c)
    /\ old' = p.q

CalculateWith(p) == Solved(p, calculate(p.q))

\* "if ui.add(calc_button).clicked() { self.calculate_quadrilateral(); }"
CalculateClick ==
    /\ main = "running"
    /\ CalculateWith(PrepareCalculate(app, quad))
    /\ fin' = InputsOf(app)
    /\ field' = 9
    /\ UNCHANGED <<fout, tasks, main>>

\* the OK button of the error dialog
DismissError ==
    /\ main = "running"
    /\ is_some(app.error_message)
    /\ app' = [app EXCEPT !.error_message = None]
    /\ UNCHANGED <<quad, field, old, result, strategy, fin, fout, tasks, main>>

NextCalculate == EditInput(CalculateTexts) \/ CalculateClick \/ DismissError

SpecCalculate == Init /\ [][NextCalculate]_vars

---------------------------------------------------------------------------
(* The whole window over a session: the side panel as above and the canvas *)
(* of draw_quadrilateral, which handles one Response of the painter per    *)
(* frame while the shape is shown.  The pointer is on the middle of a side *)
(* or inside the shape; a frame in which the painter reports no pointer    *)
(* position changes nothing.                                               *)

MaxLines == 1
\* the sides the pointer visits
PointerSides == {0, 1}

\* the texts offered for each input (1..8): two lengths of AB, and an
\* angle at B that can be entered and cleared again
CanvasTexts ==
    [i \in 1..8 |->
        CASE i = 1 -> {Text003, Text005}
          [] i \in 2..4 -> {Text003}
          [] i = 5 -> {Text90}
          [] i = 6 -> {<< >>, Text90}
          [] OTHER -> {}]

\* response.interact_pointer_pos()
PointerPositions(q) ==
    {get_point_on_side(q, side, 50) : side \in PointerSides}
        \cup {Point((q.vertices[0].x + q.vertices[2].x) \div 2,
                    (q.vertices[0].y + q.vertices[2].y) \div 2)}

\* the painter's Response: the button is held before the drag is
\* recognised, the drag starts, goes on, or stops
Responses(q) ==
    {[pos |-> pos, drag_started |-> f[1], dragged |-> f[2], drag_stopped |-> f[3]] :
        pos \in PointerPositions(q),
        f \in {<<FALSE, FALSE, FALSE>>, <<TRUE, TRUE, FALSE>>,
               <<FALSE, TRUE, FALSE>>, <<FALSE, FALSE, TRUE>>}}

\* the frame from the drag of an end point on: the index panics, or the
\* handlers run to their end; a is the CadApp after the drag start
Interact(a, r) ==
    IF IndexOutOfBounds(a, r)
    THEN /\ app' = a
         /\ main' = "panicked"
    ELSE /\ app' = AfterDrag(a, quad, r)
         /\ Len(app'.custom_lines) <= MaxLines
         /\ main' = main

\* "if self.calculated { self.draw_quadrilateral(ui); }"
DrawQuadrilateral ==
    /\ main = "running"
    /\ app.calculated
    /\ \E r \in Responses(quad) : Interact(AfterDragStart(AfterHover(app, r), r), r)
    /\ UNCHANGED <<quad, field, old, result, strategy, fin, fout, tasks>>

NextCanvas ==
    EditInput(CanvasTexts) \/ CalculateClick \/ DismissError \/ DrawQuadrilateral

SpecCanvas == Init /\ [][NextCanvas]_vars

---------------------------------------------------------------------------
(* The update check (ui.rs, check_for_updates and the update dialog).  The *)
(* handler of the button spawns a task on the tokio runtime and sleeps for *)
(* 100 ms on the main thread; checking_update is true exactly while it     *)
(* sleeps.  The task runs on a thread of the runtime and stores its result *)
(* under the mutex when the request to GitHub has come to an end, before,  *)
(* during or after that sleep.                                             *)

MaxTasks == 3

\* what the request of one check can come to
GitHubResponses ==
    {[kind |-> "error"], [kind |-> "status"]}
        \cup {[kind |-> "release", tag_name |-> tag, download_url |-> url] :
                 tag \in {<<"v1", "0">>, <<"v2", "0">>},
                 url \in {None, Some("browser_download_url")}}

\* a task as tokio::spawn leaves it
Spawned(kind) == [kind |-> kind, done |-> FALSE, info |-> None]

\* "if ui.button("Nach Updates suchen").clicked() { self.check_for_updates(); }"
\* up to the sleep
CheckForUpdates ==
    /\ main = "running"
    /\ ~app.checking_update
    /\ Len(tasks) < MaxTasks
    /\ app' = [app EXCEPT !.checking_update = TRUE]
    /\ tasks' = Append(tasks, Spawned("check_for_updates"))
    /\ UNCHANGED <<quad, field, old, result, strategy, fin, fout, main>>

\* check_for_updates after the sleep
CheckForUpdatesWake ==
    /\ main = "running"
    /\ app.checking_update
    /\ app' = [app EXCEPT !.checking_update = FALSE, !.show_update_dialog = TRUE]
    /\ UNCHANGED <<quad, field, old, result, strategy, fin, fout, tasks, main>>

\* task k stores what its request came to
Stored(k, info) ==
    /\ app' = [app EXCEPT !.update_info = Some(info)]
    /\ tasks' = [tasks EXCEPT ![k].done = TRUE, ![k].info = Some(info)]

\* a spawned check comes to its end: "*update_info.lock().unwrap() = Some(..)"
CheckTask ==
    /\ main = "running"
    /\ \E k \in DOMAIN tasks :
          /\ tasks[k].kind = "check_for_updates"
          /\ ~tasks[k].done
          /\ \E response \in GitHubResponses :
                Stored(k, CheckedInfo(check_for_updates(response)))
    /\ UNCHANGED <<quad, field, old, result, strategy, fin, fout, main>>

\* the dialog's "Abbrechen" and "OK": either is there only if the dialog
\* found an UpdateInfo under the mutex
CloseUpdateDialog ==
    /\ main = "running"
    /\ ~app.checking_update
    /\ app.show_update_dialog
    /\ is_some(app.update_info)
    /\ app' = [app EXCEPT !.show_update_dialog = FALSE]
    /\ UNCHANGED <<quad, field, old, result, strategy, fin, fout, tasks, main>>

\* the dialog's "Jetzt installieren": install_update
InstallUpdate ==
    /\ main = "running"
    /\ ~app.checking_update
    /\ app.show_update_dialog
    /\ is_some(app.update_info)
    /\ unwrap(app.update_info).available
    /\ Len(tasks) < MaxTasks
    /\ IF is_some(unwrap(app.update_info).download_url)
       THEN /\ app' = [app EXCEPT !.update_status = "Download läuft..."]
            /\ tasks' = Append(tasks, Spawned("download_and_install_update"))
       ELSE UNCHANGED <<app, tasks>>
    /\ UNCHANGED <<quad, field, old, result, strategy, fin, fout, main>>

\* a spawned download comes to its end: "Ok(_) => std::process::exit(0)",
\* "Err(e) => eprintln!(..)"
DownloadTask ==
    /\ main = "running"
    /\ \E k \in DOMAIN tasks :
          /\ tasks[k].kind = "download_and_install_update"
          /\ ~tasks[k].done
          /\ tasks' = [tasks EXCEPT ![k].done = TRUE]
    /\ main' \in {"running", "exited"}
    /\ UNCHANGED <<quad, field, old, result, strategy, fin, fout, app>>

NextUpdate ==
    \/ CheckForUpdates
    \/ CheckForUpdatesWake
    \/ CheckTask
    \/ CloseUpdateDialog
    \/ InstallUpdate
    \/ DownloadTask

SpecUpdate == Init /\ [][NextUpdate]_vars

---------------------------------------------------------------------------
(* Properties.  Sides and angles are numbered 1..4 for AB, BC, CD, DA and  *)
(* A, B, C, D.                                                             *)

GivenSides(q) == {i \in 1..4 : is_some(SidesOf(q)[i])}
GivenAngles(q) == {i \in 1..4 : is_some(AnglesOf(q)[i])}
AllFieldsSet(q) == GivenSides(q) = 1..4 /\ GivenAngles(q) = 1..4

\* the specification's notion of a solvable input
AdjacentPairs == {{1, 2}, {2, 3}, {3, 4}, {4, 1}}
Solvable(q) ==
    \/ Cardinality(GivenSides(q)) = 4 /\ Cardinality(GivenAngles(q)) >= 1
    \/ /\ Cardinality(GivenSides(q)) = 3
       /\ Cardinality(GivenAngles(q)) >= 2
       /\ \E p \in AdjacentPairs : p \subseteq GivenAngles(q)

\* the specification's closure tolerance: max(1 um, round(expected * 0.001))
ClosureTolerance(e) == Max(1, RoundDiv(e, 1000))

\* the side opposite side i: AB <-> CD, BC <-> DA
Opposite(i) == ((i + 1) % 4) + 1

\* the first unset angle in the order A, B, C, D
FirstUnsetAngle(q) ==
    CHOOSE i \in 1..4 : is_none(AnglesOf(q)[i]) /\ \A j \in 1..(i - 1) : is_some(AnglesOf(q)[j])

\* C1: calculate() is atomic: whenever it returns an error, of any kind, the
\* four sides, the four angles and the four vertices of the instance have
\* exactly the values they had before the call.
C1_AtomicOnError ==
    (field = 9 /\ result.kind # "Ok") => quad = old

\* C2: calculate() fails with InsufficientConstraints, reporting the number
\* of sides given and the number of angles given, exactly when the input is
\* not solvable (4 sides and at least 1 angle, or 3 sides and at least 2
\* angles of which two are adjacent).
C2_InsufficientIffNotSolvable ==
    field = 9 =>
      /\ (result.kind = "InsufficientConstraints") <=> ~Solvable(old)
      /\ ~Solvable(old) =>
           result = InsufficientConstraints(Cardinality(GivenSides(old)),
                                            Cardinality(GivenAngles(old)))

\* AB and BC given, no angle: fails reporting 2 sides and 0 angles
C2_Witness ==
    /\ field = 9
    /\ GivenSides(old) = {1, 2}
    /\ GivenAngles(old) = {}
    /\ result = InsufficientConstraints(2, 0)

\* C3: after any successful calculate() all four sides and all four angles
\* of the instance are set, whichever constructor was selected.
C3_AllFieldsSetAfterSuccess ==
    (field = 9 /\ result.kind = "Ok") => AllFieldsSet(quad)

\* three sides and two angles given, the fourth side and two angles derived
C3_Witness ==
    /\ field = 9
    /\ result.kind = "Ok"
    /\ strategy = "bc_cd_ab_angles_b_c"
    /\ Cardinality(GivenSides(old)) = 3
    /\ Cardinality(GivenAngles(old)) = 2
    /\ AllFieldsSet(quad)

\* C4: after any successful calculate() the four angles of the instance sum
\* to 360 degrees within 0.5 degrees.
C4_AngleSumAfterSuccess ==
    (field = 9 /\ result.kind = "Ok") => Abs(AngleSum(quad) - 360000) <= 500

\* C5: after any successful calculate(), every side the user gave equals,
\* within the closure tolerance, the distance between that side's own two
\* endpoints in the final vertices.
C5_GivenSidesMatchVertices ==
    (field = 9 /\ result.kind = "Ok") =>
      \A i \in GivenSides(old) :
        Abs(get_side_length_um(quad, i - 1) - unwrap(SidesOf(old)[i]))
          <= ClosureTolerance(unwrap(SidesOf(old)[i]))

\* C6: calculate() never changes a side or an angle that was set when it was
\* called; it writes only fields that were unset.
C6_SetFieldsUnchanged ==
    field = 9 =>
      /\ \A i \in GivenSides(old) : SidesOf(quad)[i] = SidesOf(old)[i]
      /\ \A i \in GivenAngles(old) : AnglesOf(quad)[i] = AnglesOf(old)[i]

\* a successful run that completed the fourth angle and derived the fourth
\* side
C6_Witness ==
    /\ field = 9
    /\ result.kind = "Ok"
    /\ Cardinality(GivenSides(old)) = 3
    /\ Cardinality(GivenAngles(old)) = 3
    /\ AllFieldsSet(quad)

\* C7: with all four angles given and solvable counts, calculate() fails
\* with AngleSumInvalid exactly when the sum of the four angles is more than
\* 0.5 degrees away from 360; a sum exactly 0.5 away is accepted.
C7_AngleSumInvalidIffOutside ==
    (field = 9 /\ GivenAngles(old) = 1..4 /\ Cardinality(GivenSides(old)) >= 3) =>
      ((result.kind = "AngleSumInvalid") <=> Abs(AngleSum(old) - 360000) > 500)

\* four angles that sum to exactly 360.5 degrees pass the check
C7_Witness ==
    /\ field = 9
    /\ GivenAngles(old) = 1..4
    /\ Cardinality(GivenSides(old)) >= 3
    /\ AngleSum(old) = 360500
    /\ result.kind # "AngleSumInvalid"

\* C8: with exactly three angles given (and solvable counts) the missing
\* angle is 360 degrees minus their sum and is stored in the one unset slot,
\* the three given angles staying as they are; if it is <= 0 or >= 360
\* calculate() fails with InvalidDerivedAngle and assigns no angle.
C8_MissingAngleDerived ==
    (field = 9 /\ Cardinality(GivenAngles(old)) = 3 /\ Cardinality(GivenSides(old)) >= 3) =>
      LET missing == 360000 - AngleSum(old)
          slot == FirstUnsetAngle(old)
      IN  IF missing <= 0 \/ missing >= 360000
          THEN /\ result = InvalidDerivedAngle(AngleSum(old), missing)
               /\ AnglesOf(quad) = AnglesOf(old)
          ELSE /\ result.kind # "InvalidDerivedAngle"
               /\ \A i \in 1..4 :
                    AnglesOf(quad)[i] =
                      IF i = slot THEN Some(missing) ELSE AnglesOf(old)[i]

\* A, C and D given, B derived as 360 minus their sum
C8_Witness ==
    /\ field = 9
    /\ GivenAngles(old) = {1, 3, 4}
    /\ Cardinality(GivenSides(old)) >= 3
    /\ quad.angle_b = Some(360000 - AngleSum(old))
    /\ result.kind = "Ok"

\* C9: the closure check accepts a computed length c against a given length
\* e exactly when |c - e| <= max(1, round(e * 0.001)), the tolerance being
\* e/1000 rounded to nearest; otherwise it fails with ClosureMismatch naming
\* the side.
C9_AcceptsWithinRoundedTolerance ==
    fout # << >> =>
      LET c == fin[2]
          e == fin[3]
      IN  /\ (fout[1] = Ok) <=> Abs(c - e) <= ClosureTolerance(e)
          /\ fout[1] # Ok => fout[1] = ClosureMismatch(fin[1], c, e)

\* C9 as the code has it: the closure check accepts exactly when
\* |c - e| <= max(1, e * 0.001 truncated to an integer), and a difference
\* equal to that tolerance is accepted; otherwise ClosureMismatch names the
\* side.
C9_AcceptsWithinTruncatedTolerance ==
    fout # << >> =>
      LET c == fin[2]
          e == fin[3]
      IN  /\ (fout[1] = Ok) <=> Abs(c - e) <= Max(1, e \div 1000)
          /\ fout[1] # Ok => fout[1] = ClosureMismatch(fin[1], c, e)

\* e = 1500 um, c = 1502 um: 2 um off, rounding would allow 2, the check
\* allows 1 and rejects
C9_Witness ==
    /\ fout # << >>
    /\ fin[3] = 1500
    /\ fin[2] = 1502
    /\ fout[1] = ClosureMismatch(fin[1], 1502, 1500)

\* The inputs of C10: <<missing side, the two angles given>> for the five
\* three-side constructors
RectanglePatterns ==
    { <<3, {1, 2}>>, <<4, {2, 3}>>, <<1, {3, 4}>>, <<2, {4, 1}>>, <<1, {2, 3}>> }

IsRectangleInput(q) ==
    \E p \in RectanglePatterns :
      /\ GivenSides(q) = (1..4) \ {p[1]}
      /\ GivenAngles(q) = p[2]
      /\ \A a \in p[2] : AnglesOf(q)[a] = Some(90000)
      /\ \E i \in GivenSides(q) :
           Opposite(i) \in GivenSides(q) /\ SidesOf(q)[i] = SidesOf(q)[Opposite(i)]

\* C10: three sides and the two adjacent angles both 90 degrees, the two
\* given opposite sides equal: calculate() succeeds, the missing side comes
\* out equal to the side opposite it and the two remaining angles come out
\* as 90 degrees (within 0.5), for each of the five three-side constructors.
C10_RectangleFromThreeSides ==
    (field = 9 /\ IsRectangleInput(old)) =>
      /\ result.kind = "Ok"
      /\ \A m \in (1..4) \ GivenSides(old) :
           SidesOf(quad)[m] = SidesOf(old)[Opposite(m)]
      /\ \A a \in 1..4 : Abs(unwrap(AnglesOf(quad)[a]) - 90000) <= 500

\* the one-angle constructors
OneAngleStrategies ==
    {"all_sides_angle_a", "all_sides_angle_b", "all_sides_angle_c", "all_sides_angle_d"}

\* the two circles a one-angle constructor intersects: the centers are the
\* two vertices next to the one that is constructed, the radii the sides
\* that join them to it
CirclesOf(q, s) ==
    CASE s = "all_sides_angle_a" ->
           [c1 |-> q.vertices[1], r1 |-> unwrap(side_um(q, 1)), c2 |-> q.vertices[3], r2 |-> unwrap(side_um(q, 2))]
      [] s = "all_sides_angle_b" ->
           [c1 |-> q.vertices[0], r1 |-> unwrap(side_um(q, 3)), c2 |-> q.vertices[2], r2 |-> unwrap(side_um(q, 2))]
      [] s = "all_sides_angle_c" ->
           [c1 |-> q.vertices[1], r1 |-> unwrap(side_um(q, 0)), c2 |-> q.vertices[3], r2 |-> unwrap(side_um(q, 3))]
      [] s = "all_sides_angle_d" ->
           [c1 |-> q.vertices[0], r1 |-> unwrap(side_um(q, 0)), c2 |-> q.vertices[2], r2 |-> unwrap(side_um(q, 1))]

\* d > r1 + r2, or d < |r1 - r2|, for the center distance d of two circles
\* with non-negative radii, centers in grid units and radii in micrometers
TooFarApart(c) == Dist2(c.c1, c.c2) > (AsF64(c.r1) + AsF64(c.r2)) * (AsF64(c.r1) + AsF64(c.r2))
OneInsideOther(c) == Dist2(c.c1, c.c2) < (AsF64(c.r1) - AsF64(c.r2)) * (AsF64(c.r1) - AsF64(c.r2))

\* C11: the circle intersection reports GeometricConflict exactly when the
\* centers are farther apart than r1 + r2 or closer than |r1 - r2|, and every
\* one-angle constructor returns that error as the result of calculate().
C11_ConflictIffCirclesMiss ==
    (field = 9 /\ strategy \in OneAngleStrategies) =>
        (result = GeometricConflict <=>
            (TooFarApart(CirclesOf(quad, strategy)) \/ OneInsideOther(CirclesOf(quad, strategy))))

C11_Witness ==
    /\ field = 9
    /\ strategy \in OneAngleStrategies
    /\ result = GeometricConflict
    /\ OneInsideOther(CirclesOf(quad, strategy))
    /\ ~ TooFarApart(CirclesOf(quad, strategy))

\* the length of a side recomputed from the vertices is within
\* max(1 um, 0.1%) of the given length
SideMatches(q, side) ==
    Abs(get_side_length_um(q, side) - unwrap(side_um(old, side))) * 1000
        <= Max(1000, unwrap(side_um(old, side)))

\* C12: with four sides and a one-angle constructor selected, if the two
\* circles intersect then calculate() succeeds, and each of the four sides
\* recomputed from the final vertices is within max(1 um, 0.1%) of the given
\* length.
C12_OneAngleSucceedsWithGivenSides ==
    (/\ field = 9
     /\ strategy \in OneAngleStrategies
     /\ ~ TooFarApart(CirclesOf(quad, strategy))
     /\ ~ OneInsideOther(CirclesOf(quad, strategy)))
        => (result = Ok /\ \A side \in 0..3 : SideMatches(quad, side))

\* the magnitude up to which every integer survives the two roundings of
\* the round trip: a quarter of the significand's range
RoundTripLimit == TwoTo(MantissaBits - 2)

\* the integer u is a nearest integer to the float x
NearestInteger(u, x) ==
    IF x.e >= 0 THEN u = x.m * TwoTo(x.e)
    ELSE 2 * Abs(u * TwoTo(-x.e) - x.m) <= TwoTo(-x.e)

\* C14 as stated: for every integer micrometer value k,
\* mm_to_um(um_to_mm(k)) = k, and for the millimeter value x of every k,
\* um_to_mm(mm_to_um(x)) = x.
C14_RoundTripEveryInteger ==
    /\ Len(fout) >= 2 => fout[2] = fin[1]
    /\ Len(fout) = 3 => fout[3] = fout[1]

\* C14: for every integer micrometer value k of magnitude up to a quarter of
\* the significand's range (2^51 for f64), mm_to_um(um_to_mm(k)) = k, and for
\* the millimeter value x of such a k, um_to_mm(mm_to_um(x)) = x; mm_to_um(mm)
\* is mm * 1000 rounded to the nearest integer.
C14_RoundTripWithinSignificand ==
    /\ (Len(fout) >= 2 /\ Abs(fin[1]) <= RoundTripLimit) => fout[2] = fin[1]
    /\ (Len(fout) = 3 /\ Abs(fin[1]) <= RoundTripLimit) => fout[3] = fout[1]
    /\ Len(fout) >= 2 => NearestInteger(fout[2], MulF64(fout[1], 1000))

C14_Witness ==
    /\ Len(fout) = 3
    /\ fin[1] = 1 - RoundTripLimit
    /\ fout[2] = fin[1]
    /\ fout[3] = fout[1]

\* a setter call for a field that is given, none for one that is not
SideSetIfGiven(q, side, um) ==
    IF is_some(um) THEN set_side_mm(q, side, 10 * unwrap(um)) ELSE q
AngleSetIfGiven(q, vertex, deg) ==
    IF is_some(deg) THEN set_angle(q, vertex, unwrap(deg)) ELSE q

\* a second fresh instance populated with the sides and angles of src, the
\* fields assigned in the order D, C, B, A, DA, CD, BC, AB
PopulatedAgain(src) ==
    SideSetIfGiven(SideSetIfGiven(SideSetIfGiven(SideSetIfGiven(
        AngleSetIfGiven(AngleSetIfGiven(AngleSetIfGiven(AngleSetIfGiven(
            NewQuadrilateral,
            3, src.angle_d), 2, src.angle_c), 1, src.angle_b), 0, src.angle_a),
        3, src.side_da_um), 2, src.side_cd_um), 1, src.side_bc_um), 0, src.side_ab_um)

\* the outcome c of a call equals the one this run has recorded
SameOutcome(c) == c.res = result /\ c.q = quad

GreaterAtFirstDifference(c, l) ==
    \E i \in 1..Len(c) :
        /\ i <= Len(l)
        /\ l[i] > c[i]
        /\ \A j \in 1..(i - 1) : l[j] = c[j]

\* all shared numeric components are equal and latest has more of them
LongerWithEqualShared(c, l) ==
    /\ Len(l) > Len(c)
    /\ \A j \in 1..Len(c) : l[j] = c[j]

\* C15: is_version_newer(current, latest) is true exactly when latest is
\* greater at the first differing dot-separated numeric component, or all
\* shared components are equal and latest has more components; it is false
\* for equal versions and never true in both directions.
C15_NewerIffGreaterOrLonger ==
    /\ Len(fout) >= 1 =>
         /\ fout[1] <=>
              \/ GreaterAtFirstDifference(parse_version(fin[1]), parse_version(fin[2]))
              \/ LongerWithEqualShared(parse_version(fin[1]), parse_version(fin[2]))
         /\ fin[1] = fin[2] => ~ fout[1]
    /\ Len(fout) = 2 => ~ (fout[1] /\ fout[2])

C15_Witness ==
    /\ Len(fout) = 2
    /\ fout[1]
    /\ ~ fout[2]
    /\ fin[1] = <<"0", "1">>
    /\ fin[2] = <<"0", "01", "0">>

\* the two-angle constructors, by the pair of angles they are anchored on
StrategiesAnchoredAt ==
    [ab |-> {"ab_bc_da_angles_a_b", "all_sides_angles_a_b"},
     bc |-> {"bc_cd_ab_angles_b_c", "bc_cd_da_angles_b_c", "all_sides_angles_b_c"},
     cd |-> {"cd_da_bc_angles_c_d", "all_sides_angles_c_d"},
     da |-> {"da_ab_cd_angles_d_a", "all_sides_angles_d_a"}]
TwoAngleStrategies ==
    StrategiesAnchoredAt.ab \cup StrategiesAnchoredAt.bc
        \cup StrategiesAnchoredAt.cd \cup StrategiesAnchoredAt.da

\* the side that joins the two vertices placed from the anchors: CD for
\* anchors A and B, DA for B and C, AB for C and D, BC for D and A
ClosingSide(s) ==
    IF s \in StrategiesAnchoredAt.ab THEN 2
    ELSE IF s \in StrategiesAnchoredAt.bc THEN 3
    ELSE IF s \in StrategiesAnchoredAt.cd THEN 0
    ELSE 1

\* side was given and its length between the final vertices is outside the
\* tolerance exactly when the result is ClosureMismatch, or side was not
\* given and its field holds the length between the final vertices
CheckedOrDerived(side) ==
    IF is_some(side_um(old, side))
    THEN result.kind = "ClosureMismatch" <=>
            Abs(calculated_side_um(quad, side) - unwrap(side_um(old, side)))
                > tolerance_um(unwrap(side_um(old, side)))
    ELSE side_um(quad, side) = Some(calculated_side_um(quad, side))

\* C16: in every two-angle constructor the side checked or derived at the
\* end is the one that joins the two independently placed vertices: if it was
\* given, the result is ClosureMismatch exactly when its computed length is
\* outside the tolerance; if it was not given, its field is set to the
\* computed length.
C16_ClosingSideCheckedOrDerived ==
    (field = 9 /\ strategy \in TwoAngleStrategies) =>
        CheckedOrDerived(ClosingSide(strategy))

\* the vertices P and Q a two-angle constructor is anchored on (0..3 for A..D)
AnchorP(s) == (ClosingSide(s) + 2) % 4
AnchorQ(s) == (ClosingSide(s) + 3) % 4

\* the interior angle of the final vertices at vertex v, in millidegrees
InteriorAngleAt(q, v) ==
    calculate_interior_angle(q.vertices[(v + 3) % 4], q.vertices[v], q.vertices[(v + 1) % 4])

\* the interior angle at v is the one the constructor was given in the
\* angle field of v, to half a degree
GivenAngleRealized(v) ==
    2 * Abs(InteriorAngleAt(quad, v) - unwrap(AnglesOf(quad)[v + 1])) <= 1000

\* C17: in every two-angle constructor the vertices next to the anchors P
\* and Q are placed so that the interior angles of the final vertices at P and
\* at Q equal the given angles, for every angle value.
C17_AnchorAnglesRealized ==
    (field = 9 /\ strategy \in TwoAngleStrategies /\ result = Ok) =>
        (GivenAngleRealized(AnchorP(strategy)) /\ GivenAngleRealized(AnchorQ(strategy)))

\* The dispatcher is called once the input has passed is_solvable and
\* calculate_missing_angles.
DispatcherCalled ==
    /\ field = 9
    /\ result.kind \notin {"InsufficientConstraints", "AngleSumInvalid", "InvalidDerivedAngle"}

\* the angles that are set when the dispatcher is called: the given ones,
\* and with three given the fourth, which calculate_missing_angles has set
AnglesSetAtDispatch ==
    IF Cardinality(GivenAngles(old)) = 3 THEN 1..4 ELSE GivenAngles(old)

\* the adjacent pairs in the order A&B, B&C, C&D, D&A
AdjacentPair(i) == {i, (i % 4) + 1}
SomeAdjacentPairSet == \E i \in 1..4 : AdjacentPair(i) \subseteq AnglesSetAtDispatch
FirstAdjacentPairSet ==
    CHOOSE i \in 1..4 :
        /\ AdjacentPair(i) \subseteq AnglesSetAtDispatch
        /\ \A j \in 1..(i - 1) : ~ (AdjacentPair(j) \subseteq AnglesSetAtDispatch)
AllSidesTwoAngle ==
    << "all_sides_angles_a_b", "all_sides_angles_b_c",
       "all_sides_angles_c_d", "all_sides_angles_d_a" >>

\* C18: with all four sides given, the dispatcher selects the two-angle
\* constructor of the first adjacent pair, in the order A&B, B&C, C&D, D&A,
\* whose two angles are both set, whichever other angles are set.
C18_FirstAdjacentPairSelected ==
    (DispatcherCalled /\ GivenSides(old) = 1..4 /\ SomeAdjacentPairSet) =>
        strategy = AllSidesTwoAngle[FirstAdjacentPairSet]

C18_Witness ==
    /\ DispatcherCalled
    /\ GivenSides(old) = 1..4
    /\ GivenAngles(old) = {1, 4}
    /\ strategy = "all_sides_angles_d_a"

\* the first angle set in the order A, B, C, D
FirstAngleSet ==
    CHOOSE i \in AnglesSetAtDispatch : \A j \in AnglesSetAtDispatch : i <= j
AllSidesOneAngle ==
    << "all_sides_angle_a", "all_sides_angle_b", "all_sides_angle_c", "all_sides_angle_d" >>

\* C19: with four sides and no adjacent pair of angles set, the dispatcher
\* selects the one-angle constructor of the first set angle in the order A, B,
\* C, D; a one-angle constructor is never selected when some adjacent pair is
\* set, and one is selected when exactly two opposite angles are set.
C19_OneAngleOnlyWithoutAdjacentPair ==
    DispatcherCalled =>
        /\ (GivenSides(old) = 1..4 /\ ~ SomeAdjacentPairSet) =>
              strategy = AllSidesOneAngle[FirstAngleSet]
        /\ strategy \in OneAngleStrategies => ~ SomeAdjacentPairSet
        /\ (GivenSides(old) = 1..4 /\ GivenAngles(old) \in {{1, 3}, {2, 4}}) =>
              strategy \in OneAngleStrategies

C19_Witness ==
    /\ DispatcherCalled
    /\ GivenSides(old) = 1..4
    /\ GivenAngles(old) = {2, 4}
    /\ strategy = "all_sides_angle_b"

\* the combinations of a missing side and an adjacent pair of angles that
\* have a constructor, with the constructor: (CD, A&B), (DA, B&C), (AB, C&D),
\* (BC, D&A) and (AB, B&C)
ThreeSideCombinations ==
    { <<3, {1, 2}, "ab_bc_da_angles_a_b">>, <<4, {2, 3}, "bc_cd_ab_angles_b_c">>,
      <<1, {3, 4}, "cd_da_bc_angles_c_d">>, <<2, {4, 1}, "da_ab_cd_angles_d_a">>,
      <<1, {2, 3}, "bc_cd_da_angles_b_c">> }
MissingSide == CHOOSE i \in 1..4 : i \notin GivenSides(old)

\* C20: with exactly three sides and exactly two angles, which are adjacent,
\* the dispatcher selects a constructor for exactly five combinations of
\* missing side and pair of angles; for every other combination calculate()
\* fails with UnsupportedCombination.
C20_FiveThreeSideCombinations ==
    (/\ DispatcherCalled
     /\ Cardinality(GivenSides(old)) = 3
     /\ Cardinality(GivenAngles(old)) = 2) =>
        IF \E c \in ThreeSideCombinations : c[1] = MissingSide /\ c[2] = GivenAngles(old)
        THEN /\ <<MissingSide, GivenAngles(old), strategy>> \in ThreeSideCombinations
             /\ result # UnsupportedCombination
        ELSE strategy = "none" /\ result = UnsupportedCombination

C20_Witness ==
    /\ DispatcherCalled
    /\ GivenSides(old) = {1, 2, 4}
    /\ GivenAngles(old) = {2, 3}
    /\ result = UnsupportedCombination

\* C21: calculate() never fails with UnsupportedCombination when all four
\* sides are set with at least one angle, nor when exactly three sides are set
\* and at least three angles were given with a valid sum: the dispatcher always
\* selects a constructor, the fourth angle being set before it runs.
C21_AlwaysDispatched ==
    (/\ field = 9
     /\ \/ Cardinality(GivenSides(old)) = 4 /\ Cardinality(GivenAngles(old)) >= 1
        \/ Cardinality(GivenSides(old)) = 3 /\ Cardinality(GivenAngles(old)) >= 3)
        => /\ result # UnsupportedCombination
           /\ DispatcherCalled => strategy # "none"

C21_Witness ==
    /\ DispatcherCalled
    /\ GivenSides(old) = {1, 3, 4}
    /\ GivenAngles(old) = {1, 2, 3}
    /\ strategy = "da_ab_cd_angles_d_a"

\* the errors that calculate() returns before it constructs anything
EarlyErrors ==
    {"InsufficientConstraints", "AngleSumInvalid", "InvalidDerivedAngle",
     "UnsupportedCombination"}

\* C22: if calculate() fails with InsufficientConstraints, AngleSumInvalid,
\* InvalidDerivedAngle or UnsupportedCombination, no side, angle or vertex of
\* the instance has been modified; UnsupportedCombination occurs only with at
\* most two given angles.
C22_EarlyErrorsLeaveInstance ==
    (field = 9 /\ result.kind \in EarlyErrors) =>
        /\ quad = old
        /\ result = UnsupportedCombination => Cardinality(GivenAngles(old)) <= 2

C22_Witness ==
    /\ field = 9
    /\ result.kind = "InvalidDerivedAngle"
    /\ Cardinality(GivenAngles(old)) = 3
    /\ quad = old

\* the vertex a one-angle constructor takes from the circle intersection
IntersectionVertex(s) ==
    CASE s = "all_sides_angle_a" -> 2
      [] s = "all_sides_angle_b" -> 3
      [] s = "all_sides_angle_c" -> 0
      [] s = "all_sides_angle_d" -> 1

\* p is at distance r1 from the first center and r2 from the second, to
\* the micrometer
OnBothCircles(p, c) ==
    distance_um(c.c1, p) = c.r1 /\ distance_um(c.c2, p) = c.r2

\* p is not below its mirror image in the line of the centers, the other
\* candidate: with n = (dy, -dx) the image's y is p.y + 2 ((p - c1).n) dx / d^2
NotBelowOtherCandidate(p, c) ==
    Sgn((p.x - c.c1.x) * (c.c2.y - c.c1.y) - (p.y - c.c1.y) * (c.c2.x - c.c1.x))
        * Sgn(c.c2.x - c.c1.x) <= 0

\* C23: whenever the circle intersection returns a point, the point is at
\* distance r1 from the first center and r2 from the second, and of the two
\* candidates it is the one with the greater or equal y; touching circles and
\* coincident centers included.
C23_ReturnedPointOnBothCircles ==
    (field = 9 /\ strategy \in OneAngleStrategies /\ result # GeometricConflict) =>
        /\ OnBothCircles(quad.vertices[IntersectionVertex(strategy)],
                         CirclesOf(quad, strategy))
        /\ NotBelowOtherCandidate(quad.vertices[IntersectionVertex(strategy)],
                                  CirclesOf(quad, strategy))

\* the angles calculate_angles_from_vertices has derived: those that were
\* not set when the dispatcher was called
AnglesFromVertices == (1..4) \ AnglesSetAtDispatch

\* C24: every angle derived from three vertex positions lies in [0, 180]
\* degrees: it is never reflex and never negative.
C24_DerivedAnglesNotReflex ==
    (field = 9 /\ result = Ok) =>
        /\ \A i \in AnglesFromVertices :
              unwrap(AnglesOf(quad)[i]) >= 0 /\ unwrap(AnglesOf(quad)[i]) <= 180000
        /\ \A v \in 0..3 :
              InteriorAngleAt(quad, v) >= 0 /\ InteriorAngleAt(quad, v) <= 180000

---------------------------------------------------------------------------
(* C25..C26: the calculate button                                          *)

\* what an input text stands for: nothing when it is empty or does not parse
TextValue(text, scale) ==
    LET x == parse_f64(replace(text, ",", "."))
    IN  IF text # << >> /\ is_some(x) THEN Some(InUnits(unwrap(x), scale)) ELSE None
SideOfText(text) ==
    LET mm == TextValue(text, 10000)
    IN  IF is_some(mm) THEN Some(mm_to_um(unwrap(mm))) ELSE None

\* C25: after every click on the calculate button, the sides and angles
\* that calculate() was called with are those of the input texts at the
\* click: a field is set exactly when its text is non-empty and parses, and
\* then to the text's value, whatever an earlier calculation left in the
\* instance.
C25_FieldsFromCurrentTexts ==
    (field = 9 /\ Len(fin) = 8) =>
        /\ \A i \in 1..4 : SidesOf(old)[i] = SideOfText(fin[i])
        /\ \A i \in 1..4 : AnglesOf(old)[i] = TextValue(fin[i + 4], 1000)

\* a click with four sides and no angle after a calculation that had
\* constructed the square and derived its angles
C25_Witness ==
    /\ field = 9
    /\ Len(fin) = 8
    /\ old.vertices[2] = Point(AsF64(30), AsF64(30))
    /\ GivenSides(old) = 1..4
    /\ GivenAngles(old) = {}
    /\ result.kind = "InsufficientConstraints"

\* C26: in every state of a session, the shape is shown (calculated) iff
\* the last click's calculate() returned Ok, and an error message is only
\* set while calculated is false.
C26_CalculatedIffSolved ==
    /\ app.calculated <=> (field = 9 /\ result = Ok)
    /\ is_some(app.error_message) => ~app.calculated

\* a failed calculation after a successful one, its dialog still open
C26_Witness ==
    /\ field = 9
    /\ old.vertices[2] = Point(AsF64(30), AsF64(30))
    /\ result.kind = "ClosureMismatch"
    /\ app.error_message = Some(result)
    /\ ~app.calculated

---------------------------------------------------------------------------
(* C27..C29: the custom lines of the canvas                                *)

\* both end points of line are where its sides and ratios put them on the
\* stored vertices
OnStoredVertices(line) ==
    /\ line.start = get_point_on_side(quad, line.start_side, line.start_ratio)
    /\ line.end = get_point_on_side(quad, line.end_side, line.end_ratio)

\* C27: whenever the shape is displayed (calculated is true), both end
\* points of every custom line are the points its sides and ratios give on
\* the currently stored vertices; and while no calculation has succeeded
\* yet there is no custom line.
C27_LinesOnCurrentVertices ==
    /\ app.calculated =>
          \A i \in DOMAIN app.custom_lines : OnStoredVertices(app.custom_lines[i])
    /\ quad.vertices = NewQuadrilateral.vertices => app.custom_lines = << >>

\* a line drawn on the second shape of a session, one end moved since
C27_Witness ==
    /\ app.calculated
    /\ unwrap(quad.side_ab_um) = 50
    /\ Len(app.custom_lines) = 1
    /\ app.custom_lines[1].start_side = 0
    /\ app.custom_lines[1].end_side = 1
    /\ app.drag_offset.x = 1
    /\ is_some(app.dragging_line_idx)

\* C28: in every state, drawing_line is true exactly when line_start is
\* set, and drawing_line and a set dragging_line_idx never hold together.
C28_DrawingIffLineStart ==
    /\ app.drawing_line <=> is_some(app.line_start)
    /\ ~(app.drawing_line /\ is_some(app.dragging_line_idx))

\* a new line is being drawn while there is a line whose end could be moved
C28_Witness ==
    /\ app.drawing_line
    /\ is_some(app.line_start)
    /\ is_none(app.dragging_line_idx)
    /\ Len(app.custom_lines) >= 1
    /\ is_some(app.preview_end)

\* C29: the main thread never panics at custom_lines[drag_idx]: whenever a
\* drag move is processed, dragging_line_idx is an index into custom_lines.
C29_DragIndexInBounds == main = "running"

---------------------------------------------------------------------------
(* C30: the update dialog                                                  *)

\* the task of the latest check
LatestCheck ==
    LET checks == {k \in DOMAIN tasks : tasks[k].kind = "check_for_updates"}
    IN  tasks[CHOOSE k \in checks : \A j \in checks : j <= k]

\* C30: whenever the update dialog is open and a frame can draw it (the
\* handler of the check is not asleep), update_info holds the result of the
\* latest check: the task of that check has stored its result, and that
\* result is what the dialog reads.
C30_DialogShowsLatestCheck ==
    (app.show_update_dialog /\ ~app.checking_update) =>
        /\ LatestCheck.done
        /\ app.update_info = LatestCheck.info

===========================================================================
